---- MODULE Spec2Model ----
(***************************************************************************)
(* serde_fs: a serde Serializer / Deserializer pair that maps the serde    *)
(* data model onto a directory tree (src/src/ser.rs, src/src/de.rs).        *)
(*                                                                         *)
(* Text is a sequence of bytes, each byte a one-element string; a file     *)
(* name is such a text and a path is a sequence of names from "/".          *)
(* The file tree is a function from the existing paths to their nodes.      *)
(*                                                                         *)
(* Spec runs whole calls one after the other on the tree fs, last being    *)
(* the call that has just returned.  ConcSpec runs two encode calls at     *)
(* once, one filesystem operation at a time; procs holds what is left of   *)
(* each of them.                                                           *)
(***************************************************************************)
EXTENDS Integers, Sequences, FiniteSets, TLC

VARIABLES fs, last, steps, procs

vars == <<fs, last, steps, procs>>

(***************************************************************************)
(* Bounds of the model.                                                    *)
(***************************************************************************)
\* number of calls (encode, decode, caller's own file writes) in one run
MaxSteps == 2
\* longest sequence value handed to the encoder
MaxLen == 2

(***************************************************************************)
(* Text: formatting and parsing (format!("{}", v), str::trim, str::parse). *)
(***************************************************************************)
DigitChars == <<"0", "1", "2", "3", "4", "5", "6", "7", "8", "9">>

Digits == {DigitChars[i] : i \in 1..10}

Whitespace == {" ", "\n", "\t", "\r"}

\* a byte that is no valid UTF-8 on its own
InvalidByte == "xFF"

DigitVal(c) == (CHOOSE i \in 1..10 : DigitChars[i] = c) - 1

RECURSIVE FormatNat(_)
FormatNat(n) ==
    IF n < 10 THEN <<DigitChars[n + 1]>>
    ELSE FormatNat(n \div 10) \o <<DigitChars[(n % 10) + 1]>>

\* format!("{}", v) of an integer
FormatInt(n) == IF n < 0 THEN <<"-">> \o FormatNat(0 - n) ELSE FormatNat(n)

RECURSIVE TrimStart(_)
TrimStart(s) ==
    IF s # <<>> /\ Head(s) \in Whitespace THEN TrimStart(Tail(s)) ELSE s

RECURSIVE TrimEnd(_)
TrimEnd(s) ==
    IF s # <<>> /\ s[Len(s)] \in Whitespace
    THEN TrimEnd(SubSeq(s, 1, Len(s) - 1))
    ELSE s

\* a trim of the end only
Trim_end_only(s) == TrimEnd(s)

\* str::trim
Trim(s) == TrimEnd(TrimStart(s))

AllDigits(s) == s # <<>> /\ \A i \in 1..Len(s) : s[i] \in Digits

RECURSIVE DigitsValue(_)
DigitsValue(s) ==
    IF s = <<>> THEN 0
    ELSE DigitsValue(SubSeq(s, 1, Len(s) - 1)) * 10 + DigitVal(s[Len(s)])

\* the name of a directory entry parses as usize (an optional "+", then digits)
ParsesAsUsize(name) ==
    LET d == IF name # <<>> /\ Head(name) = "+" THEN Tail(name) ELSE name
    IN  AllDigits(d)

\* str::parse::<bool>
ParseBool(s) ==
    IF s = <<"t", "r", "u", "e">> THEN [ok |-> TRUE, b |-> TRUE]
    ELSE IF s = <<"f", "a", "l", "s", "e">> THEN [ok |-> TRUE, b |-> FALSE]
    ELSE [ok |-> FALSE, b |-> FALSE]

IntMin(w) == IF w = "i8" THEN 0 - 128 ELSE 0

IntMax(w) == IF w = "i8" THEN 127 ELSE 255

\* str::parse::<u8> and str::parse::<i8>: an optional sign ("-" only for the
\* signed type), then digits, within the range of the type
ParseInt(w, s) ==
    LET neg == w = "i8" /\ s # <<>> /\ Head(s) = "-"
        d   == IF s # <<>> /\ (Head(s) = "+" \/ neg) THEN Tail(s) ELSE s
        bad == [ok |-> FALSE, n |-> 0]
    IN  IF ~AllDigits(d) \/ Len(d) > 4 THEN bad
        ELSE LET n == IF neg THEN 0 - DigitsValue(d) ELSE DigitsValue(d)
             IN  IF n < IntMin(w) \/ n > IntMax(w) THEN bad
                 ELSE [ok |-> TRUE, n |-> n]

(***************************************************************************)
(* Names the codec reserves and the names the callers of this model use.   *)
(***************************************************************************)
variant == <<"v", "a", "r", "i", "a", "n", "t">>

value == <<"v", "a", "l", "u", "e">>

\* format!("{}", self.counter)
IndexName(i) == FormatNat(i)

(***************************************************************************)
(* The file tree and std::fs / std::path on it.                            *)
(***************************************************************************)
Dir == [kind |-> "dir", content |-> <<>>]

File(content) == [kind |-> "file", content |-> content]

IsPrefix(p, q) == Len(p) <= Len(q) /\ SubSeq(q, 1, Len(p)) = p

\* PathBuf::pop
Parent(p) == SubSeq(p, 1, Len(p) - 1)

exists(f, p) == p \in DOMAIN f

is_dir(f, p) == p \in DOMAIN f /\ f[p].kind = "dir"

is_file(f, p) == p \in DOMAIN f /\ f[p].kind = "file"

\* results of the operations that change the tree
Done(f) == [fs |-> f, err |-> "none"]

Failed(f, e) == [fs |-> f, err |-> e]

Put(f, p, node) == [q \in DOMAIN f \cup {p} |-> IF q = p THEN node ELSE f[q]]

\* fs::remove_file: unlink, which refuses a directory and a missing path
remove_file(f, p) ==
    IF is_file(f, p)
    THEN Done([q \in DOMAIN f \ {p} |-> f[q]])
    ELSE Failed(f, "IoError")

\* fs::remove_dir_all
remove_dir_all(f, p) ==
    IF is_dir(f, p)
    THEN Done([q \in {r \in DOMAIN f : ~IsPrefix(p, r)} |-> f[q]])
    ELSE Failed(f, "IoError")

\* fs::create_dir_all: every missing ancestor is created; a regular file on
\* the way is an error and nothing is created
create_dir_all(f, p) ==
    IF \E n \in 0..Len(p) : is_file(f, SubSeq(p, 1, n))
    THEN Failed(f, "IoError")
    ELSE Done([q \in DOMAIN f \cup {SubSeq(p, 1, n) : n \in 0..Len(p)} |->
                  IF q \in DOMAIN f THEN f[q] ELSE Dir])

\* fs::File::create followed by file.write(content)
File_create(f, p, content) ==
    IF p # <<>> /\ is_dir(f, Parent(p)) /\ ~is_dir(f, p)
    THEN Done(Put(f, p, File(content)))
    ELSE Failed(f, "IoError")

\* the current directory of the process, against which a relative path is
\* resolved
Cwd == <<<<"c", "w", "d">>>>

\* the names of the entries of directory p
Entries(f, p) == {q[Len(q)] : q \in {r \in DOMAIN f : Len(r) = Len(p) + 1 /\ IsPrefix(p, r)}}

RECURSIVE SetToSeq(_)
SetToSeq(s) ==
    IF s = {} THEN <<>>
    ELSE LET e == CHOOSE e \in s : TRUE IN <<e>> \o SetToSeq(s \ {e})

Reverse(s) == [i \in 1..Len(s) |-> s[Len(s) + 1 - i]]

\* fs::read_dir: the entries in an order the file system chooses; rev picks
\* one of two enumeration orders
read_dir(f, p, rev) ==
    IF rev THEN Reverse(SetToSeq(Entries(f, p))) ELSE SetToSeq(Entries(f, p))

(***************************************************************************)
(* Values of the serde data model.  One record shape for every value:      *)
(*   t  the shape, i an integer (or 1/0 for a bool), s a text (string,     *)
(*   bytes, variant name), k field names, mk map keys, c children.         *)
(***************************************************************************)
Val(t, i, s, k, mk, c) == [t |-> t, i |-> i, s |-> s, k |-> k, mk |-> mk, c |-> c]

VBool(b) == Val("bool", IF b THEN 1 ELSE 0, <<>>, <<>>, <<>>, <<>>)

VInt(w, n) == Val(w, n, <<>>, <<>>, <<>>, <<>>)

VStr(text) == Val("str", 0, text, <<>>, <<>>, <<>>)

VBytes(bytes) == Val("bytes", 0, bytes, <<>>, <<>>, <<>>)

VUnit == Val("unit", 0, <<>>, <<>>, <<>>, <<>>)

VNone == Val("none", 0, <<>>, <<>>, <<>>, <<>>)

VSome(x) == Val("some", 0, <<>>, <<>>, <<>>, <<x>>)

VSeq(elems) == Val("seq", 0, <<>>, <<>>, <<>>, elems)

VTuple(elems) == Val("tuple", 0, <<>>, <<>>, <<>>, elems)

VMap(keys, vals) == Val("map", 0, <<>>, <<>>, keys, vals)

VStruct(names, vals) == Val("struct", 0, <<>>, names, <<>>, vals)

VUnitVariant(name) == Val("unit_variant", 0, name, <<>>, <<>>, <<>>)

VNewtypeVariant(name, x) == Val("newtype_variant", 0, name, <<>>, <<>>, <<x>>)

VTupleVariant(name, elems) == Val("tuple_variant", 0, name, <<>>, <<>>, elems)

VStructVariant(name, names, vals) == Val("struct_variant", 0, name, names, <<>>, vals)

(***************************************************************************)
(* The encoder (src/src/ser.rs).  Every operation returns the tree it      *)
(* leaves and the error it ends with ("none" on success); an error leaves  *)
(* the tree as it was when the error happened.                             *)
(***************************************************************************)
\* write_to_file without the removal of a directory in the way
write_to_file_keep_dir(f, p, content) ==
    LET r2 == create_dir_all(f, Parent(p))
    IN  IF r2.err # "none" THEN r2 ELSE File_create(r2.fs, p, content)

write_to_file(f, p, content) ==
    LET r1 == IF is_dir(f, p) THEN remove_dir_all(f, p) ELSE Done(f)
    IN  IF r1.err # "none" THEN r1
        ELSE LET r2 == create_dir_all(r1.fs, Parent(p))
             IN  IF r2.err # "none" THEN r2
                 ELSE File_create(r2.fs, p, content)

\* the loop of FilesystemSequenceSerializer::new over the entries of p
RECURSIVE RemoveNumbered(_, _, _)
RemoveNumbered(f, p, names) ==
    IF names = <<>> THEN Done(f)
    ELSE IF ParsesAsUsize(Head(names))
    THEN LET r == remove_file(f, p \o <<Head(names)>>)
         IN  IF r.err # "none" THEN r
             ELSE RemoveNumbered(r.fs, p, Tail(names))
    ELSE RemoveNumbered(f, p, Tail(names))

\* FilesystemSequenceSerializer::new without the reconciliation loop
FilesystemSequenceSerializer_new_no_reconcile(f, p, rev) ==
    LET r1 == IF is_file(f, p) THEN remove_file(f, p) ELSE Done(f)
    IN  IF r1.err # "none" THEN r1 ELSE create_dir_all(r1.fs, p)

\* FilesystemSequenceSerializer::new clearing the whole directory
FilesystemSequenceSerializer_new_wipe(f, p, rev) ==
    LET r1 == IF is_dir(f, p) THEN remove_dir_all(f, p)
              ELSE IF is_file(f, p) THEN remove_file(f, p)
              ELSE Done(f)
    IN  IF r1.err # "none" THEN r1 ELSE create_dir_all(r1.fs, p)

FilesystemSequenceSerializer_new(f, p, rev) ==
    LET r1 == IF is_dir(f, p) THEN RemoveNumbered(f, p, read_dir(f, p, rev))
              ELSE IF is_file(f, p) THEN remove_file(f, p)
              ELSE Done(f)
    IN  IF r1.err # "none" THEN r1 ELSE create_dir_all(r1.fs, p)

\* the files among the entries names of directory p removed, one by one
RECURSIVE RemoveFiles(_, _, _)
RemoveFiles(f, p, names) ==
    IF names = <<>> THEN Done(f)
    ELSE IF is_file(f, p \o <<Head(names)>>)
    THEN RemoveFiles(remove_file(f, p \o <<Head(names)>>).fs, p, Tail(names))
    ELSE RemoveFiles(f, p, Tail(names))

\* FilesystemMapSerializer::new removing the files a directory holds, as the
\* sequence serializer removes the numbered ones
FilesystemMapSerializer_new_reconcile(f, p) ==
    LET r1 == IF is_dir(f, p) THEN RemoveFiles(f, p, read_dir(f, p, FALSE))
              ELSE IF is_file(f, p) THEN remove_file(f, p)
              ELSE Done(f)
    IN  IF r1.err # "none" THEN r1 ELSE create_dir_all(r1.fs, p)

\* FilesystemMapSerializer::new clearing the whole directory
FilesystemMapSerializer_new_wipe(f, p) ==
    LET r1 == IF is_dir(f, p) THEN remove_dir_all(f, p)
              ELSE IF is_file(f, p) THEN remove_file(f, p)
              ELSE Done(f)
    IN  IF r1.err # "none" THEN r1 ELSE create_dir_all(r1.fs, p)

FilesystemMapSerializer_new(f, p) ==
    LET r1 == IF is_file(f, p) THEN remove_file(f, p) ELSE Done(f)
    IN  IF r1.err # "none" THEN r1 ELSE create_dir_all(r1.fs, p)

\* MapKeySerializer formatting an integer key as its digits
MapKeySerializer_accepts_numbers(key) ==
    IF key.t = "str" THEN [err |-> "none", key |-> key.s]
    ELSE IF key.t \in {"u8", "i8"} THEN [err |-> "none", key |-> FormatInt(key.i)]
    ELSE [err |-> "KeyMustBeAString", key |-> <<>>]

\* MapKeySerializer: only serialize_str returns a key
MapKeySerializer(key) ==
    IF key.t = "str" THEN [err |-> "none", key |-> key.s]
    ELSE [err |-> "KeyMustBeAString", key |-> <<>>]

\* serialize_none emptying a directory and leaving it in place
serialize_none_keeps_dir(f, p) ==
    IF is_file(f, p) THEN remove_file(f, p)
    ELSE IF is_dir(f, p)
    THEN Done([q \in {r \in DOMAIN f : r = p \/ ~IsPrefix(p, r)} |-> f[q]])
    ELSE Done(f)

\* serialize_none removing a file only
serialize_none_files_only(f, p) ==
    IF is_file(f, p) THEN remove_file(f, p) ELSE Done(f)

serialize_none(f, p) ==
    IF is_file(f, p) THEN remove_file(f, p)
    ELSE IF is_dir(f, p) THEN remove_dir_all(f, p)
    ELSE Done(f)

\* serialize_newtype_variant clearing the whole directory first
newtype_variant_prepare_wipe(f, p, name) ==
    LET r1 == IF is_dir(f, p) THEN remove_dir_all(f, p)
              ELSE IF is_file(f, p) THEN remove_file(f, p)
              ELSE Done(f)
    IN  IF r1.err # "none" THEN r1
        ELSE LET r2 == create_dir_all(r1.fs, p)
             IN  IF r2.err # "none" THEN r2
                 ELSE write_to_file(r2.fs, p \o <<variant>>, name)

\* the clearing and the marker of serialize_newtype_variant, up to the payload
newtype_variant_prepare(f, p, name) ==
    LET r1 == IF is_dir(f, p)
              THEN LET a == IF is_file(f, p \o <<variant>>)
                            THEN remove_file(f, p \o <<variant>>)
                            ELSE Done(f)
                   IN  IF a.err # "none" THEN a
                       ELSE IF is_file(a.fs, p \o <<value>>)
                       THEN remove_file(a.fs, p \o <<value>>)
                       ELSE IF is_dir(a.fs, p \o <<value>>)
                       THEN remove_dir_all(a.fs, p \o <<value>>)
                       ELSE a
              ELSE IF is_file(f, p) THEN remove_file(f, p)
              ELSE Done(f)
    IN  IF r1.err # "none" THEN r1
        ELSE LET r2 == create_dir_all(r1.fs, p)
             IN  IF r2.err # "none" THEN r2
                 ELSE write_to_file(r2.fs, p \o <<variant>>, name)

RECURSIVE serialize(_, _, _, _)
RECURSIVE do_serialize_element(_, _, _, _, _)
RECURSIVE serialize_field(_, _, _, _, _, _)
RECURSIVE serialize_entry(_, _, _, _, _, _)

\* value.serialize(FilesystemSerializer { path: p })
serialize(f, p, v, rev) ==
    CASE v.t = "bool" ->
           write_to_file(f, p, IF v.i = 1 THEN <<"t", "r", "u", "e">>
                                          ELSE <<"f", "a", "l", "s", "e">>)
      [] v.t \in {"u8", "i8"} -> write_to_file(f, p, FormatInt(v.i))
      [] v.t \in {"str", "bytes", "char", "unit_variant"} -> write_to_file(f, p, v.s)
      [] v.t = "unit" -> write_to_file(f, p, <<>>)
      [] v.t = "none" -> serialize_none(f, p)
      [] v.t = "some" -> serialize(f, p, v.c[1], rev)
      [] v.t \in {"seq", "tuple"} ->
           LET r == FilesystemSequenceSerializer_new(f, p, rev)
           IN  IF r.err # "none" THEN r
               ELSE do_serialize_element(r.fs, p, v.c, 0, rev)
      [] v.t = "tuple_variant" ->
           LET r == FilesystemSequenceSerializer_new(f, p, rev)
           IN  IF r.err # "none" THEN r
               ELSE LET w == write_to_file(r.fs, p \o <<variant>>, v.s)
                    IN  IF w.err # "none" THEN w
                        ELSE do_serialize_element(w.fs, p, v.c, 0, rev)
      [] v.t = "map" ->
           LET r == FilesystemMapSerializer_new(f, p)
           IN  IF r.err # "none" THEN r
               ELSE serialize_entry(r.fs, p, v.mk, v.c, 1, rev)
      [] v.t = "struct" ->
           LET r == FilesystemMapSerializer_new(f, p)
           IN  IF r.err # "none" THEN r
               ELSE serialize_field(r.fs, p, v.k, v.c, 1, rev)
      [] v.t = "struct_variant" ->
           LET r == FilesystemMapSerializer_new(f, p)
           IN  IF r.err # "none" THEN r
               ELSE LET w == write_to_file(r.fs, p \o <<variant>>, v.s)
                    IN  IF w.err # "none" THEN w
                        ELSE serialize_field(w.fs, p, v.k, v.c, 1, rev)
      [] v.t = "newtype_variant" ->
           LET r == newtype_variant_prepare(f, p, v.s)
           IN  IF r.err # "none" THEN r
               ELSE serialize(r.fs, p \o <<value>>, v.c[1], rev)

\* do_serialize_element with the counter incremented before it names the file
RECURSIVE do_serialize_element_from_one(_, _, _, _, _)
do_serialize_element_from_one(f, p, elems, counter, rev) ==
    IF counter >= Len(elems) THEN Done(f)
    ELSE LET r == serialize(f, p \o <<IndexName(counter + 1)>>, elems[counter + 1], rev)
         IN  IF r.err # "none" THEN r
             ELSE do_serialize_element_from_one(r.fs, p, elems, counter + 1, rev)

\* do_serialize_element giving no index to an element that is none
RECURSIVE do_serialize_element_skip_none(_, _, _, _, _)
do_serialize_element_skip_none(f, p, elems, counter, rev) ==
    IF counter >= Len(elems) THEN Done(f)
    ELSE IF elems[counter + 1].t = "none"
    THEN do_serialize_element_skip_none(
             f, p, SubSeq(elems, 1, counter) \o SubSeq(elems, counter + 2, Len(elems)),
             counter, rev)
    ELSE LET r == serialize(f, p \o <<IndexName(counter)>>, elems[counter + 1], rev)
         IN  IF r.err # "none" THEN r
             ELSE do_serialize_element_skip_none(r.fs, p, elems, counter + 1, rev)

\* do_serialize_element with a caller that goes on after an element failed
\* and returns the first error at the end
RECURSIVE do_serialize_element_keep_going(_, _, _, _, _)
do_serialize_element_keep_going(f, p, elems, counter, rev) ==
    IF counter >= Len(elems) THEN Done(f)
    ELSE LET r == serialize(f, p \o <<IndexName(counter)>>, elems[counter + 1], rev)
             rest == do_serialize_element_keep_going(r.fs, p, elems, counter + 1, rev)
         IN  IF r.err # "none" THEN Failed(rest.fs, r.err) ELSE rest

\* the elements from self.counter on, each at p/counter; the first error ends it
do_serialize_element(f, p, elems, counter, rev) ==
    IF counter >= Len(elems) THEN Done(f)
    ELSE LET r == serialize(f, p \o <<IndexName(counter)>>, elems[counter + 1], rev)
         IN  IF r.err # "none" THEN r
             ELSE do_serialize_element(r.fs, p, elems, counter + 1, rev)

\* serialize_field leaving a field named `variant` unwritten
RECURSIVE serialize_field_keep_marker(_, _, _, _, _, _)
serialize_field_keep_marker(f, p, names, vals, n, rev) ==
    IF n > Len(vals) THEN Done(f)
    ELSE IF names[n] = variant
    THEN serialize_field_keep_marker(f, p, names, vals, n + 1, rev)
    ELSE LET r == serialize(f, p \o <<names[n]>>, vals[n], rev)
         IN  IF r.err # "none" THEN r
             ELSE serialize_field_keep_marker(r.fs, p, names, vals, n + 1, rev)

\* SerializeStruct / SerializeStructVariant: the fields from the n-th on
serialize_field(f, p, names, vals, n, rev) ==
    IF n > Len(vals) THEN Done(f)
    ELSE LET r == serialize(f, p \o <<names[n]>>, vals[n], rev)
         IN  IF r.err # "none" THEN r
             ELSE serialize_field(r.fs, p, names, vals, n + 1, rev)

\* serialize_entry refusing the map before it writes a pair, when one of the
\* keys is no string
RECURSIVE serialize_entry_keys_first(_, _, _, _, _, _)
serialize_entry_keys_first(f, p, keys, vals, n, rev) ==
    IF \E i \in 1..Len(keys) : MapKeySerializer(keys[i]).err # "none"
    THEN Failed(f, "KeyMustBeAString")
    ELSE IF n > Len(vals) THEN Done(f)
    ELSE LET r == serialize(f, p \o <<MapKeySerializer(keys[n]).key>>, vals[n], rev)
         IN  IF r.err # "none" THEN r
             ELSE serialize_entry_keys_first(r.fs, p, keys, vals, n + 1, rev)

\* SerializeMap::serialize_entry for the pairs from the n-th on
serialize_entry(f, p, keys, vals, n, rev) ==
    IF n > Len(vals) THEN Done(f)
    ELSE LET key == MapKeySerializer(keys[n])
         IN  IF key.err # "none" THEN Failed(f, key.err)
             ELSE LET r == serialize(f, p \o <<key.key>>, vals[n], rev)
                  IN  IF r.err # "none" THEN r
                      ELSE serialize_entry(r.fs, p, keys, vals, n + 1, rev)

\* to_fs(path, value)
to_fs(f, p, v, rev) == serialize(f, p, v, rev)

\* SerializeMap::serialize_key: the key text, the directory, and a file created
\* at the key text taken as a path, which is relative to the current directory
serialize_key(f, p, key) ==
    LET k == MapKeySerializer(key)
    IN  IF k.err # "none" THEN [fs |-> f, err |-> k.err, key |-> <<>>]
        ELSE LET r == create_dir_all(f, p)
             IN  IF r.err # "none" THEN [fs |-> r.fs, err |-> r.err, key |-> <<>>]
                 ELSE LET c == File_create(r.fs, Cwd \o <<k.key>>, <<>>)
                      IN  [fs |-> c.fs, err |-> c.err, key |-> k.key]

\* SerializeMap::serialize_value with self.key = Some(key)
serialize_value(f, p, key, v, rev) == serialize(f, p \o <<key>>, v, rev)

\* serialize_key then serialize_value for the pairs from the n-th on
RECURSIVE serialize_key_value(_, _, _, _, _, _)
serialize_key_value(f, p, keys, vals, n, rev) ==
    IF n > Len(vals) THEN Done(f)
    ELSE LET k == serialize_key(f, p, keys[n])
         IN  IF k.err # "none" THEN Failed(k.fs, k.err)
             ELSE LET r == serialize_value(k.fs, p, k.key, vals[n], rev)
                  IN  IF r.err # "none" THEN r
                      ELSE serialize_key_value(r.fs, p, keys, vals, n + 1, rev)

\* a Serialize implementation that writes a map key by key: serialize_map,
\* then serialize_key and serialize_value for every pair, then end
serialize_map_by_key(f, p, v, rev) ==
    LET r == FilesystemMapSerializer_new(f, p)
    IN  IF r.err # "none" THEN r
        ELSE serialize_key_value(r.fs, p, v.mk, v.c, 1, rev)

(***************************************************************************)
(* The encoder one filesystem operation at a time.  A call is a list of    *)
(* tasks, each one operation the code issues; a test (is_dir, is_file,     *)
(* read_dir) puts the operations that depend on its answer in front of the *)
(* rest, and create_dir_all is the mkdir calls std makes for it.           *)
(***************************************************************************)
Task(op, path, text) == [op |-> op, path |-> path, text |-> text]

\* mkdir(2)
mkdir(f, q) ==
    IF exists(f, q) THEN Failed(f, "EEXIST")
    ELSE IF is_dir(f, Parent(q)) THEN Done(Put(f, q, Dir))
    ELSE IF exists(f, Parent(q)) THEN Failed(f, "ENOTDIR")
    ELSE Failed(f, "ENOENT")

\* the last mkdir of create_dir_all failing on a directory that is there
create_dir_retry_strict(f, q) ==
    LET r == mkdir(f, q)
    IN  IF r.err = "none" THEN r ELSE Failed(f, "IoError")

\* the last mkdir of create_dir_all, once the parent has been created: a
\* directory that is there by now is a success
create_dir_retry(f, q) ==
    LET r == mkdir(f, q)
    IN  IF r.err = "none" \/ is_dir(f, q) THEN Done(r.fs) ELSE Failed(f, "IoError")

\* one operation: the tree it leaves, its error, and the tasks it puts in
\* front of the rest of the call
Exec(f, t, rev) ==
    LET p == t.path
        Go(g, push) == [fs |-> g, err |-> "none", push |-> push]
        Stop(e) == [fs |-> f, err |-> e, push |-> <<>>]
        Of(r) == [fs |-> r.fs, err |-> r.err, push |-> <<>>]
    IN  CASE t.op = "write_to_file.is_dir" ->
               Go(f, IF is_dir(f, p) THEN <<Task("remove_dir_all", p, <<>>)>> ELSE <<>>)
          [] t.op = "seq.is_dir" ->
               Go(f, IF is_dir(f, p) THEN <<Task("read_dir", p, <<>>)>>
                     ELSE <<Task("is_file", p, <<>>)>>)
          [] t.op = "newtype_variant.is_dir" ->
               Go(f, IF is_dir(f, p)
                     THEN <<Task("is_file", p \o <<variant>>, <<>>),
                            Task("none.is_file", p \o <<value>>, <<>>)>>
                     ELSE <<Task("is_file", p, <<>>)>>)
          [] t.op = "is_file" ->
               Go(f, IF is_file(f, p) THEN <<Task("remove_file", p, <<>>)>> ELSE <<>>)
          [] t.op = "none.is_file" ->
               Go(f, IF is_file(f, p) THEN <<Task("remove_file", p, <<>>)>>
                     ELSE <<Task("write_to_file.is_dir", p, <<>>)>>)
          [] t.op = "read_dir" ->
               IF ~is_dir(f, p) THEN Stop("IoError")
               ELSE LET ns == SelectSeq(read_dir(f, p, rev), ParsesAsUsize)
                    IN  Go(f, [i \in 1..Len(ns) |->
                                  Task("remove_file", p \o <<ns[i]>>, <<>>)])
          [] t.op = "remove_file" -> Of(remove_file(f, p))
          [] t.op = "remove_dir_all" -> Of(remove_dir_all(f, p))
          [] t.op = "create_dir_all" ->
               LET r == mkdir(f, p)
               IN  IF r.err = "none" THEN Go(r.fs, <<>>)
                   ELSE IF r.err = "ENOENT"
                   THEN Go(f, <<Task("create_dir_all", Parent(p), <<>>),
                                Task("create_dir", p, <<>>)>>)
                   ELSE IF is_dir(f, p) THEN Go(f, <<>>)
                   ELSE Stop("IoError")
          [] t.op = "create_dir" -> Of(create_dir_retry(f, p))
          [] t.op = "File::create" ->
               IF is_dir(f, Parent(p)) /\ ~is_dir(f, p)
               THEN Go(Put(f, p, File(<<>>)), <<>>)
               ELSE Stop("IoError")
          [] t.op = "write" ->
               IF is_file(f, p) THEN Go(Put(f, p, File(t.text)), <<>>)
               ELSE Stop("IoError")
          [] t.op = "KeyMustBeAString" -> Stop("KeyMustBeAString")

\* the operations of write_to_file(p, content)
write_to_file_tasks(p, content) ==
    <<Task("write_to_file.is_dir", p, <<>>),
      Task("create_dir_all", Parent(p), <<>>),
      Task("File::create", p, <<>>),
      Task("write", p, content)>>

RECURSIVE Program(_, _)
RECURSIVE ChildPrograms(_, _, _, _)
RECURSIVE EntryPrograms(_, _, _, _)
\* the operations of value.serialize(FilesystemSerializer { path: p })
Program(p, v) ==
    LET index == [i \in 1..Len(v.c) |-> IndexName(i - 1)]
    IN  CASE v.t = "bool" ->
               write_to_file_tasks(p, IF v.i = 1 THEN <<"t", "r", "u", "e">>
                                                 ELSE <<"f", "a", "l", "s", "e">>)
          [] v.t \in {"u8", "i8"} -> write_to_file_tasks(p, FormatInt(v.i))
          [] v.t \in {"str", "bytes", "char", "unit_variant"} ->
               write_to_file_tasks(p, v.s)
          [] v.t = "unit" -> write_to_file_tasks(p, <<>>)
          [] v.t = "none" -> <<Task("none.is_file", p, <<>>)>>
          [] v.t = "some" -> Program(p, v.c[1])
          [] v.t \in {"seq", "tuple"} ->
               <<Task("seq.is_dir", p, <<>>), Task("create_dir_all", p, <<>>)>>
                   \o ChildPrograms(p, index, v.c, 1)
          [] v.t = "tuple_variant" ->
               <<Task("seq.is_dir", p, <<>>), Task("create_dir_all", p, <<>>)>>
                   \o write_to_file_tasks(p \o <<variant>>, v.s)
                   \o ChildPrograms(p, index, v.c, 1)
          [] v.t = "map" ->
               <<Task("is_file", p, <<>>), Task("create_dir_all", p, <<>>)>>
                   \o EntryPrograms(p, v.mk, v.c, 1)
          [] v.t = "struct" ->
               <<Task("is_file", p, <<>>), Task("create_dir_all", p, <<>>)>>
                   \o ChildPrograms(p, v.k, v.c, 1)
          [] v.t = "struct_variant" ->
               <<Task("is_file", p, <<>>), Task("create_dir_all", p, <<>>)>>
                   \o write_to_file_tasks(p \o <<variant>>, v.s)
                   \o ChildPrograms(p, v.k, v.c, 1)
          [] v.t = "newtype_variant" ->
               <<Task("newtype_variant.is_dir", p, <<>>),
                 Task("create_dir_all", p, <<>>)>>
                   \o write_to_file_tasks(p \o <<variant>>, v.s)
                   \o Program(p \o <<value>>, v.c[1])

\* the elements or fields from the n-th on, each at p/name
ChildPrograms(p, names, vals, n) ==
    IF n > Len(vals) THEN <<>>
    ELSE Program(p \o <<names[n]>>, vals[n]) \o ChildPrograms(p, names, vals, n + 1)

\* the pairs of a map from the n-th on; a key that is not a string ends the call
EntryPrograms(p, keys, vals, n) ==
    IF n > Len(vals) THEN <<>>
    ELSE LET key == MapKeySerializer(keys[n])
         IN  IF key.err # "none" THEN <<Task("KeyMustBeAString", p, <<>>)>>
             ELSE Program(p \o <<key.key>>, vals[n])
                      \o EntryPrograms(p, keys, vals, n + 1)

(***************************************************************************)
(* Shapes: what the caller's Deserialize implementation asks for.          *)
(*   t the shape, k field or variant names, a the shapes of the children   *)
(*   (for an enum: one variant shape per variant name).                    *)
(***************************************************************************)
Ty(t, k, a) == [t |-> t, k |-> k, a |-> a]

TBool == Ty("bool", <<>>, <<>>)

TInt(w) == Ty(w, <<>>, <<>>)

TStr == Ty("str", <<>>, <<>>)

TBytes == Ty("bytes", <<>>, <<>>)

TChar == Ty("char", <<>>, <<>>)

TUnit == Ty("unit", <<>>, <<>>)

TOption(T) == Ty("option", <<>>, <<T>>)

TSeq(T) == Ty("seq", <<>>, <<T>>)

TTuple(Ts) == Ty("tuple", <<>>, Ts)

TMap(T) == Ty("map", <<>>, <<T>>)

TStruct(names, Ts) == Ty("struct", names, Ts)

TEnum(names, shapes) == Ty("enum", names, shapes)

UnitVariant == Ty("unit_variant", <<>>, <<>>)

NewtypeVariant(T) == Ty("newtype_variant", <<>>, <<T>>)

TupleVariant(Ts) == Ty("tuple_variant", <<>>, Ts)

StructVariant(names, Ts) == Ty("struct_variant", names, Ts)

(***************************************************************************)
(* The decoder (src/src/de.rs).  A result is the error kind ("none" on     *)
(* success), the value, and the payload of InvalidLen and InvalidEnum.     *)
(***************************************************************************)
Res(err, v, expected, got, text, some) ==
    [err |-> err, v |-> v, expected |-> expected, got |-> got, text |-> text,
     some |-> some]

Ok(v) == Res("none", v, 0, 0, <<>>, TRUE)

Err(e) == Res(e, VNone, 0, 0, <<>>, FALSE)

\* Ok(None) of next_element_seed
NoElement == Res("none", VNone, 0, 0, <<>>, FALSE)

InvalidLen(expected, got) == Res("InvalidLen", VNone, expected, got, <<>>, FALSE)

InvalidEnum(text) == Res("InvalidEnum", VNone, 0, 0, text, FALSE)

IsUtf8(s) == \A i \in 1..Len(s) : s[i] # InvalidByte

\* string_from_file with a missing or unreadable file read as the empty text
string_from_file_missing_is_empty(f, p) ==
    IF is_file(f, p) /\ IsUtf8(f[p].content)
    THEN [err |-> "none", s |-> f[p].content]
    ELSE [err |-> "none", s |-> <<>>]

\* File::open and read_to_string: the content of a regular file that is UTF-8
string_from_file(f, p) ==
    IF is_file(f, p) /\ IsUtf8(f[p].content)
    THEN [err |-> "none", s |-> f[p].content]
    ELSE [err |-> "IoError", s |-> <<>>]

\* File::open and read_to_end
bytes_from_file(f, p) ==
    IF is_file(f, p)
    THEN [err |-> "none", s |-> f[p].content]
    ELSE [err |-> "IoError", s |-> <<>>]

deserialize_bool(f, p) ==
    LET r == string_from_file(f, p)
    IN  IF r.err # "none" THEN Err(r.err)
        ELSE LET b == ParseBool(Trim(r.s))
             IN  IF b.ok THEN Ok(VBool(b.b)) ELSE Err("ParseBoolError")

\* deserialize_u8 and deserialize_i8
deserialize_int(f, p, w) ==
    LET r == string_from_file(f, p)
    IN  IF r.err # "none" THEN Err(r.err)
        ELSE LET n == ParseInt(w, Trim(r.s))
             IN  IF n.ok THEN Ok(VInt(w, n.n)) ELSE Err("ParseIntError")

\* u8 -> char: a byte below 0x80 is the character itself; a high byte b is
\* U+00b, two bytes in UTF-8: 0xC3 is U+00C3 (C3 83), 0xFF is U+00FF (C3 BF)
ByteAsChar(b) ==
    CASE b = "xC3" -> <<"xC3", "x83">>
      [] b = "xFF" -> <<"xC3", "xBF">>
      [] OTHER -> <<b>>

\* deserialize_char decoding the text of the file and taking its first
\* character
deserialize_char_decoded(f, p) ==
    LET r == string_from_file(f, p)
    IN  IF r.err # "none" THEN Err(r.err)
        ELSE IF r.s = <<>> THEN Err("Empty")
        ELSE Ok(Val("char", 0, <<Head(r.s)>>, <<>>, <<>>, <<>>))

deserialize_char(f, p) ==
    IF ~is_file(f, p) THEN Err("IoError")
    ELSE IF f[p].content = <<>> THEN Err("Empty")
    ELSE Ok(Val("char", 0, ByteAsChar(Head(f[p].content)), <<>>, <<>>, <<>>))

deserialize_str(f, p) ==
    LET r == string_from_file(f, p)
    IN  IF r.err # "none" THEN Err(r.err) ELSE Ok(VStr(r.s))

deserialize_bytes(f, p) ==
    LET r == bytes_from_file(f, p)
    IN  IF r.err # "none" THEN Err(r.err) ELSE Ok(VBytes(r.s))

\* deserialize_unit content with anything that exists
deserialize_unit_exists(f, p) ==
    IF exists(f, p) THEN Ok(VUnit) ELSE Err("FileNotFound")

deserialize_unit(f, p) ==
    IF is_file(f, p) THEN Ok(VUnit) ELSE Err("FileNotFound")

\* the ASCII letters, for a comparison that ignores case
UpperChars ==
    <<"A", "B", "C", "D", "E", "F", "G", "H", "I", "J", "K", "L", "M",
      "N", "O", "P", "Q", "R", "S", "T", "U", "V", "W", "X", "Y", "Z">>

LowerChars ==
    <<"a", "b", "c", "d", "e", "f", "g", "h", "i", "j", "k", "l", "m",
      "n", "o", "p", "q", "r", "s", "t", "u", "v", "w", "x", "y", "z">>

ToLower(s) ==
    [n \in 1..Len(s) |->
        IF \E i \in 1..26 : UpperChars[i] = s[n]
        THEN LowerChars[CHOOSE i \in 1..26 : UpperChars[i] = s[n]]
        ELSE s[n]]

\* the match of the discriminant made without regard to case
VariantIndex_ignore_case(names, text) ==
    IF \E i \in 1..Len(names) : ToLower(names[i]) = ToLower(text)
    THEN CHOOSE i \in 1..Len(names) :
           /\ ToLower(names[i]) = ToLower(text)
           /\ \A j \in 1..(i - 1) : ToLower(names[j]) # ToLower(text)
    ELSE 0

\* the index of the first variant name equal to the discriminant, 0 if none
VariantIndex(names, text) ==
    IF \E i \in 1..Len(names) : names[i] = text
    THEN CHOOSE i \in 1..Len(names) :
           names[i] = text /\ \A j \in 1..(i - 1) : names[j] # text
    ELSE 0

RECURSIVE deserialize(_, _, _, _)
RECURSIVE next_element_seed(_, _, _, _, _, _)
RECURSIVE visit_seq_vec(_, _, _, _, _, _)
RECURSIVE visit_seq_tuple(_, _, _, _, _, _)
RECURSIVE visit_map_struct(_, _, _, _, _, _, _)
RECURSIVE visit_map_map(_, _, _, _, _, _, _, _)
RECURSIVE deserialize_enum(_, _, _, _)

\* SeqAccess::next_element_seed without the check of the declared length
next_element_seed_any_len(f, p, T, counter, len, rev) ==
    LET path == p \o <<IndexName(counter)>>
    IN  IF exists(f, path) THEN deserialize(f, path, T, rev) ELSE NoElement

\* SeqAccess::next_element_seed with self.counter = counter; len < 0 is None
next_element_seed(f, p, T, counter, len, rev) ==
    LET path == p \o <<IndexName(counter)>>
    IN  IF exists(f, path)
        THEN deserialize(f, path, T, rev)
        ELSE IF len >= 0 /\ len # counter
        THEN InvalidLen(len, counter)
        ELSE NoElement

\* deserialize_seq: Vec's visitor takes elements until next_element is None
visit_seq_vec(f, p, T, counter, acc, rev) ==
    LET r == next_element_seed(f, p, T, counter, 0 - 1, rev)
    IN  IF r.err # "none" THEN r
        ELSE IF ~r.some THEN Ok(VSeq(acc))
        ELSE visit_seq_vec(f, p, T, counter + 1, Append(acc, r.v), rev)

\* a tuple visitor that takes every entry of the directory for an element
RECURSIVE visit_seq_tuple_counts_entries(_, _, _, _, _, _)
visit_seq_tuple_counts_entries(f, p, Ts, counter, acc, rev) ==
    IF counter = 0 /\ Cardinality(Entries(f, p)) # Len(Ts)
    THEN InvalidLen(Len(Ts), Cardinality(Entries(f, p)))
    ELSE IF counter >= Len(Ts) THEN Ok(VTuple(acc))
    ELSE LET r == next_element_seed(f, p, Ts[counter + 1], counter, Len(Ts), rev)
         IN  IF r.err # "none" THEN r
             ELSE IF ~r.some THEN Err("Custom")
             ELSE visit_seq_tuple_counts_entries(f, p, Ts, counter + 1,
                                                 Append(acc, r.v), rev)

\* deserialize_tuple: the visitor of a tuple of Len(Ts) elements takes exactly
\* that many and asks for no more
visit_seq_tuple(f, p, Ts, counter, acc, rev) ==
    IF counter = Len(Ts) THEN Ok(VTuple(acc))
    ELSE LET r == next_element_seed(f, p, Ts[counter + 1], counter, Len(Ts), rev)
         IN  IF r.err # "none" THEN r
             ELSE IF ~r.some THEN Err("Custom")
             ELSE visit_seq_tuple(f, p, Ts, counter + 1, Append(acc, r.v), rev)

\* deserialize_struct refusing a directory that holds an undeclared entry
RECURSIVE visit_map_struct_deny_unknown(_, _, _, _, _, _, _)
visit_map_struct_deny_unknown(f, p, names, Ts, n, acc, rev) ==
    IF \E e \in Entries(f, p) : \A i \in 1..Len(names) : names[i] # e
    THEN Err("Custom")
    ELSE IF n > Len(names) THEN Ok(VStruct(names, acc))
    ELSE LET r == deserialize(f, p \o <<names[n]>>, Ts[n], rev)
         IN  IF r.err # "none" THEN r
             ELSE visit_map_struct_deny_unknown(f, p, names, Ts, n + 1,
                                                Append(acc, r.v), rev)

\* deserialize_struct: MapAccess::new_for yields every declared field name,
\* next_value_seed decodes p/name
visit_map_struct(f, p, names, Ts, n, acc, rev) ==
    IF n > Len(names) THEN Ok(VStruct(names, acc))
    ELSE LET r == deserialize(f, p \o <<names[n]>>, Ts[n], rev)
         IN  IF r.err # "none" THEN r
             ELSE visit_map_struct(f, p, names, Ts, n + 1, Append(acc, r.v), rev)

RECURSIVE visit_map_map_first_only(_, _, _, _, _, _, _, _)
\* a MapAccess whose result depends on where the enumeration starts: it
\* yields the first name read_dir returned and no other
visit_map_map_first_only(f, p, T, names, n, keys, vals, rev) ==
    IF n > Len(names) \/ n > 1 THEN Ok(VMap(keys, vals))
    ELSE LET r == deserialize(f, p \o <<names[n]>>, T, rev)
         IN  IF r.err # "none" THEN r
             ELSE visit_map_map_first_only(f, p, T, names, n + 1,
                                           Append(keys, VStr(names[n])),
                                           Append(vals, r.v), rev)

\* a MapAccess that leaves out the entries that do not decode
RECURSIVE visit_map_map_skip_failing(_, _, _, _, _, _, _, _)
visit_map_map_skip_failing(f, p, T, names, n, keys, vals, rev) ==
    IF n > Len(names) THEN Ok(VMap(keys, vals))
    ELSE LET r == deserialize(f, p \o <<names[n]>>, T, rev)
         IN  IF r.err # "none"
             THEN visit_map_map_skip_failing(f, p, T, names, n + 1, keys, vals, rev)
             ELSE visit_map_map_skip_failing(f, p, T, names, n + 1,
                                             Append(keys, VStr(names[n])),
                                             Append(vals, r.v), rev)

\* deserialize_map: MapAccess::new yields the names read_dir returned
visit_map_map(f, p, T, names, n, keys, vals, rev) ==
    IF n > Len(names) THEN Ok(VMap(keys, vals))
    ELSE LET r == deserialize(f, p \o <<names[n]>>, T, rev)
         IN  IF r.err # "none" THEN r
             ELSE visit_map_map(f, p, T, names, n + 1,
                                Append(keys, VStr(names[n])), Append(vals, r.v), rev)

deserialize_enum(f, p, T, rev) ==
    LET d == IF is_dir(f, p) THEN string_from_file(f, p \o <<variant>>)
             ELSE string_from_file(f, p)
    IN  IF d.err # "none" THEN Err(d.err)
        ELSE LET i == VariantIndex(T.k, d.s)
             IN  IF i = 0 THEN InvalidEnum(d.s)
                 ELSE LET shape == T.a[i]
                      IN  IF is_dir(f, p)
                          THEN \* VariantAccess
                               CASE shape.t = "unit_variant" -> Ok(VUnitVariant(d.s))
                                 [] shape.t = "newtype_variant" ->
                                      LET r == deserialize(f, p \o <<value>>, shape.a[1], rev)
                                      IN  IF r.err # "none" THEN r
                                          ELSE Ok(VNewtypeVariant(d.s, r.v))
                                 [] shape.t = "tuple_variant" ->
                                      LET r == visit_seq_tuple(f, p, shape.a, 0, <<>>, rev)
                                      IN  IF r.err # "none" THEN r
                                          ELSE Ok(VTupleVariant(d.s, r.v.c))
                                 [] shape.t = "struct_variant" ->
                                      LET r == visit_map_struct(f, p, shape.k, shape.a, 1, <<>>, rev)
                                      IN  IF r.err # "none" THEN r
                                          ELSE Ok(VStructVariant(d.s, shape.k, r.v.c))
                          ELSE \* variant.into_deserializer(): a unit variant only
                               IF shape.t = "unit_variant" THEN Ok(VUnitVariant(d.s))
                               ELSE Err("Custom")

deserialize_option(f, p, T, rev) ==
    IF ~exists(f, p) THEN Ok(VNone)
    ELSE LET r == deserialize(f, p, T, rev)
         IN  IF r.err # "none" THEN r ELSE Ok(VSome(r.v))

deserialize_map(f, p, T, rev) ==
    IF ~is_dir(f, p) THEN Err("IoError")
    ELSE visit_map_map(f, p, T, read_dir(f, p, rev), 1, <<>>, <<>>, rev)

\* T::deserialize(FilesystemDeserializer::new(p))
deserialize(f, p, T, rev) ==
    CASE T.t = "bool" -> deserialize_bool(f, p)
      [] T.t \in {"u8", "i8"} -> deserialize_int(f, p, T.t)
      [] T.t = "char" -> deserialize_char(f, p)
      [] T.t = "str" -> deserialize_str(f, p)
      [] T.t = "bytes" -> deserialize_bytes(f, p)
      [] T.t = "unit" -> deserialize_unit(f, p)
      [] T.t = "option" -> deserialize_option(f, p, T.a[1], rev)
      [] T.t = "seq" -> visit_seq_vec(f, p, T.a[1], 0, <<>>, rev)
      [] T.t = "tuple" -> visit_seq_tuple(f, p, T.a, 0, <<>>, rev)
      [] T.t = "map" -> deserialize_map(f, p, T.a[1], rev)
      [] T.t = "struct" -> visit_map_struct(f, p, T.k, T.a, 1, <<>>, rev)
      [] T.t = "enum" -> deserialize_enum(f, p, T, rev)

\* from_fs(path)
from_fs(f, p, T, rev) == deserialize(f, p, T, rev)

(***************************************************************************)
(* The callers of this model: the types they declare, the values they      *)
(* hand to to_fs, and the paths they use.                                  *)
(***************************************************************************)
tmp == <<"t", "m", "p">>

test == <<"t", "e", "s", "t">>

passed == <<"p", "a", "s", "s", "e", "d">>

README == <<"R", "E", "A", "D", "M", "E", ".", "m", "d">>

Hello == <<"H", "e", "l", "l", "o", "!">>

\* the temporary directory of a run, which exists from the start
TmpDir == <<tmp>>

\* the path the calls are made on; its parent directory does not exist at first
P == <<tmp, <<"d">>, <<"p">>>>

U8 == TInt("u8")

\* struct Struct { test: u8, passed: Option<u8> }
Struct == TStruct(<<test, passed>>, <<U8, TOption(U8)>>)

\* struct Complex { test: u8 }
Complex == TStruct(<<test>>, <<U8>>)

\* enum Enum { A, b, C(u8), V1(u8, u8), V2 { test: u8 } }
Enum ==
    TEnum(<<<<"A">>, <<"b">>, <<"C">>, <<"V", "1">>, <<"V", "2">>, <<"V", "3">>>>,
          <<UnitVariant, UnitVariant, NewtypeVariant(U8),
            TupleVariant(<<U8, U8>>), StructVariant(<<test>>, <<U8>>),
            StructVariant(<<variant>>, <<U8>>)>>)

Types ==
    {TBool, U8, TStr, TBytes, TUnit, TOption(U8), TOption(TOption(U8)),
     TSeq(U8), TSeq(TOption(U8)), TSeq(Complex), TTuple(<<U8, TOption(U8)>>),
     TMap(U8), Struct, Enum}

\* the shapes that are decoded only: a char, and tuples shorter and longer than
\* the sequences encoded
DecodeTypes == Types \cup {TChar, TTuple(<<U8>>), TTuple(<<U8, U8, U8>>)}

U8Samples == {100, 200}

StrSamples == {<<>>, <<"h", "i">>, <<"B">>, <<" ", "1", "0", "0", " ", "\n">>}

BytesSamples == {<<"h", "i">>, <<InvalidByte>>}

KeySamples == {test, passed}

RECURSIVE SeqsOfLen(_, _)
SeqsOfLen(S, n) ==
    IF n = 0 THEN {<<>>}
    ELSE {Append(s, x) : s \in SeqsOfLen(S, n - 1), x \in S}

SeqsUpTo(S, n) == UNION {SeqsOfLen(S, m) : m \in 0..n}

\* the sequences of distinct elements of S, in every order
RECURSIVE Arrangements(_)
Arrangements(S) ==
    {<<>>} \cup UNION {{<<x>> \o r : r \in Arrangements(S \ {x})} : x \in S}

RECURSIVE ValuesOf(_)
RECURSIVE Product(_)

\* the values of shape T that the callers of this model encode
ValuesOf(T) ==
    CASE T.t = "bool" -> {VBool(TRUE), VBool(FALSE)}
      [] T.t = "u8" -> {VInt("u8", n) : n \in U8Samples}
      [] T.t = "str" -> {VStr(s) : s \in StrSamples}
      [] T.t = "bytes" -> {VBytes(s) : s \in BytesSamples}
      [] T.t = "unit" -> {VUnit}
      [] T.t = "option" -> {VNone} \cup {VSome(x) : x \in ValuesOf(T.a[1])}
      [] T.t = "seq" -> {VSeq(s) : s \in SeqsUpTo(ValuesOf(T.a[1]), MaxLen)}
      [] T.t = "tuple" -> {VTuple(s) : s \in Product(T.a)}
      [] T.t = "map" ->
           UNION {{VMap([i \in 1..Len(ks) |-> VStr(ks[i])], vs) :
                     vs \in SeqsOfLen(ValuesOf(T.a[1]), Len(ks))} :
                  ks \in Arrangements(KeySamples)}
      [] T.t = "struct" -> {VStruct(T.k, s) : s \in Product(T.a)}
      [] T.t = "enum" ->
           UNION {LET shape == T.a[i]
                  IN  CASE shape.t = "unit_variant" -> {VUnitVariant(T.k[i])}
                        [] shape.t = "newtype_variant" ->
                             {VNewtypeVariant(T.k[i], x) : x \in ValuesOf(shape.a[1])}
                        [] shape.t = "tuple_variant" ->
                             {VTupleVariant(T.k[i], s) : s \in Product(shape.a)}
                        [] shape.t = "struct_variant" ->
                             {VStructVariant(T.k[i], shape.k, s) : s \in Product(shape.a)} :
                  i \in 1..Len(T.k)}

Product(Ts) ==
    IF Ts = <<>> THEN {<<>>}
    ELSE {<<x>> \o r : x \in ValuesOf(Head(Ts)), r \in Product(Tail(Ts))}

\* keys that are no strings: a number, a boolean, a struct
InvalidKeySamples ==
    {VInt("u8", 100), VBool(TRUE), VStruct(<<test>>, <<VInt("u8", 100)>>)}

\* the maps of one entry with such a key
InvalidKeyMaps == {VMap(<<k>>, <<VInt("u8", 100)>>) : k \in InvalidKeySamples}

\* a map with a string key before and after a key that is no string
MixedKeyMap ==
    VMap(<<VStr(test), VInt("u8", 100), VStr(passed)>>,
         <<VInt("u8", 100), VInt("u8", 100), VInt("u8", 200)>>)

\* values with a child whose encoding fails: the second of three elements,
\* the first of two fields
FailingChildInputs ==
    LET bad == VMap(<<VInt("u8", 100)>>, <<VInt("u8", 100)>>)
    IN  {<<TSeq(TMap(U8)),
           VSeq(<<VMap(<<VStr(test)>>, <<VInt("u8", 100)>>), bad,
                  VMap(<<VStr(passed)>>, <<VInt("u8", 200)>>)>>)>>,
         <<TStruct(<<test, passed>>, <<TMap(U8), U8>>),
           VStruct(<<test, passed>>, <<bad, VInt("u8", 100)>>)>>}

\* every (shape, value) pair handed to to_fs
Inputs ==
    UNION {{<<T, v>> : v \in ValuesOf(T)} : T \in Types}
        \cup {<<TMap(U8), m>> : m \in InvalidKeyMaps \cup {MixedKeyMap}}
        \cup FailingChildInputs

\* the maps written key by key
MapsByKey ==
    {VMap(<<VStr(test)>>, <<VInt("u8", 100)>>),
     VMap(<<VStr(test), VStr(passed)>>, <<VInt("u8", 100), VInt("u8", 200)>>)}

\* what the callers write themselves, beside the codec: a file in P, files with
\* a numeric name in P, and a file in the place of the parent of P
ForeignWrites ==
    {<<P \o <<README>>, Hello>>,
     <<P \o <<<<"7">>>>, Hello>>,
     <<P \o <<<<"0">>>>, Hello>>,
     <<P \o <<test>>, <<" ", "1", "0", "0", " ", "\n">>>>,
     <<Parent(P), Hello>>}

(***************************************************************************)
(* The state machine: a run is a bounded series of calls on one tree.      *)
(* last records the call that has just returned: what was called, with     *)
(* what, the tree before it (pre) and what it returned.  The caller drops  *)
(* the result before it makes its next call.                               *)
(***************************************************************************)
Call(op, path, ty, v, err, out, pre) ==
    [op |-> op, path |-> path, ty |-> ty, val |-> v, err |-> err, out |-> out,
     pre |-> pre]

\* the tree a run starts in: the root and the empty temporary directory
EmptyTree == [q \in {<<>>, TmpDir, Cwd} |-> Dir]

\* no call has returned, or its result has been dropped
Idle == Call("idle", <<>>, TUnit, VNone, "none", Err("none"), EmptyTree)

\* no two calls are running at once
NoProcs == <<>>

Init ==
    /\ fs = EmptyTree
    /\ last = Idle
    /\ steps = 0
    /\ procs = NoProcs

\* to_fs(P, v)
Encode(T, v, rev) ==
    /\ last = Idle
    /\ steps < MaxSteps
    /\ LET r == to_fs(fs, P, v, rev)
       IN  /\ fs' = r.fs
           /\ last' = Call("encode", P, T, v, r.err, Err("none"), fs)
    /\ steps' = steps + 1
    /\ UNCHANGED procs

\* from_fs::<T>(P)
Decode(T, rev) ==
    /\ last = Idle
    /\ steps < MaxSteps
    /\ fs' = fs
    /\ last' = Call("decode", P, T, VNone, "none", from_fs(fs, P, T, rev), fs)
    /\ steps' = steps + 1
    /\ UNCHANGED procs

\* the caller's own write_to_file(path, content), as the tests of ser.rs do
Write(path, content) ==
    /\ last = Idle
    /\ steps < MaxSteps
    /\ LET r == write_to_file(fs, path, content)
       IN  /\ fs' = r.fs
           /\ last' = Call("write", path, TStr, VStr(content), r.err, Err("none"), fs)
    /\ steps' = steps + 1
    /\ UNCHANGED procs

\* a map written to P through serialize_key and serialize_value
EncodeByKey(v, rev) ==
    /\ last = Idle
    /\ steps < MaxSteps
    /\ LET r == serialize_map_by_key(fs, P, v, rev)
       IN  /\ fs' = r.fs
           /\ last' = Call("encode_by_key", P, TMap(U8), v, r.err, Err("none"), fs)
    /\ steps' = steps + 1
    /\ UNCHANGED procs

\* the caller is done with the result of the call
Drop ==
    /\ last # Idle
    /\ last' = Idle
    /\ UNCHANGED <<fs, steps, procs>>

Next ==
    \/ \E in \in Inputs, rev \in BOOLEAN : Encode(in[1], in[2], rev)
    \/ \E T \in DecodeTypes, rev \in BOOLEAN : Decode(T, rev)
    \/ \E v \in MapsByKey, rev \in BOOLEAN : EncodeByKey(v, rev)
    \/ \E w \in ForeignWrites : Write(w[1], w[2])
    \/ Drop

Spec == Init /\ [][Next]_vars

(***************************************************************************)
(* Two calls of to_fs at once: threads a and b encode at P/a and P/b, and  *)
(* the scheduler runs one filesystem operation of either at a time.        *)
(***************************************************************************)
Pa == P \o <<<<"a">>>>

Pb == P \o <<<<"b">>>>

\* a call of to_fs(path, v) that has not begun
Thread(path, v) ==
    [path |-> path, val |-> v, todo |-> Program(path, v), err |-> "none",
     begun |-> FALSE]

\* the trees the two calls start in: P and its parent missing; P an empty
\* directory; P holding a sequence at P/a and a file at P/b
ConcTrees ==
    {EmptyTree,
     create_dir_all(EmptyTree, P).fs,
     write_to_file(to_fs(EmptyTree, Pa, VSeq(<<VInt("u8", 100), VInt("u8", 200)>>),
                         FALSE).fs,
                   Pb, Hello).fs}

\* the values the two calls encode
ConcValues ==
    {VInt("u8", 100),
     VNone,
     VSeq(<<VInt("u8", 200)>>),
     VStruct(<<test, passed>>, <<VInt("u8", 100), VNone>>),
     VNewtypeVariant(<<"C">>, VInt("u8", 100))}

ConcInit ==
    /\ fs \in ConcTrees
    /\ \E va \in ConcValues, vb \in ConcValues :
           procs = [pre |-> fs, a |-> Thread(Pa, va), b |-> Thread(Pb, vb),
                    overlap |-> FALSE]
    /\ last = Idle
    /\ steps = 0

running(t) == t.begun /\ t.todo # <<>> /\ t.err = "none"

finished(t) == t.todo = <<>> \/ t.err # "none"

\* thread i performs its next filesystem operation
Step(i, j) ==
    /\ procs # NoProcs
    /\ ~finished(procs[i])
    /\ \E rev \in BOOLEAN :
           LET t == procs[i]
               r == Exec(fs, Head(t.todo), rev)
           IN  /\ fs' = r.fs
               /\ procs' = [procs EXCEPT
                      ![i] = [t EXCEPT
                                 !.todo = IF r.err = "none"
                                          THEN r.push \o Tail(t.todo) ELSE @,
                                 !.err = r.err,
                                 !.begun = TRUE],
                      !.overlap = @ \/ running(procs[j])]
    /\ UNCHANGED <<last, steps>>

ConcNext ==
    \/ Step("a", "b")
    \/ Step("b", "a")

ConcSpec == ConcInit /\ [][ConcNext]_vars


(***************************************************************************)
(* What the properties below are stated with                               *)
(***************************************************************************)

\* the tree at and beneath p
Subtree(f, p) == [q \in {r \in DOMAIN f : IsPrefix(p, r)} |-> f[q]]

\* no proper ancestor of p is a regular file
NoFileAbove(f, p) == \A n \in 0..(Len(p) - 1) : ~is_file(f, SubSeq(p, 1, n))

\* the names of the entries of directory p that parse as a usize
Numbered(f, p) == {n \in Entries(f, p) : ParsesAsUsize(n)}

\* IndexName of every index of a sequence of length n
IndexNames(n) == {IndexName(i) : i \in 0..(n - 1)}

\* equality of values, a map being a set of entries
RECURSIVE SameValue(_, _)
SameValue(a, b) ==
    IF a.t = "map" /\ b.t = "map"
    THEN /\ Len(a.mk) = Len(b.mk)
         /\ \A i \in 1..Len(a.mk) : \E j \in 1..Len(b.mk) :
                a.mk[i] = b.mk[j] /\ SameValue(a.c[i], b.c[j])
    ELSE /\ a.t = b.t /\ a.i = b.i /\ a.s = b.s /\ a.k = b.k /\ a.mk = b.mk
         /\ Len(a.c) = Len(b.c)
         /\ \A i \in 1..Len(a.c) : SameValue(a.c[i], b.c[i])

\* decode(P, T) succeeds and returns v, whichever way directories enumerate
DecodesTo(f, T, v) ==
    \A rev \in BOOLEAN :
        LET r == from_fs(f, P, T, rev)
        IN  r.err = "none" /\ SameValue(r.v, v)

\* none is nowhere the direct content of some, an element of a sequence, tuple
\* or tuple variant, or a value of a map; no struct variant has a field `variant`
RECURSIVE NoneIsAField(_)
NoneIsAField(v) ==
    /\ v.t \in {"some", "seq", "tuple", "tuple_variant", "map"} =>
           \A i \in 1..Len(v.c) : v.c[i].t # "none"
    /\ v.t = "struct_variant" => \A i \in 1..Len(v.k) : v.k[i] # variant
    /\ \A i \in 1..Len(v.c) : NoneIsAField(v.c[i])

ScalarTags == {"bool", "u8", "i8", "str", "bytes", "unit"}

ScalarTypes == {T \in Types : T.t \in {"bool", "u8", "i8", "str", "bytes"}}

\* content is the text or the bytes of scalar v: true or false, the decimal
\* digits without a leading zero, the text or bytes verbatim, nothing for unit
HoldsTextOf(content, v) ==
    CASE v.t = "bool" -> content = (IF v.i = 1 THEN <<"t", "r", "u", "e">>
                                               ELSE <<"f", "a", "l", "s", "e">>)
      [] v.t \in {"u8", "i8"} ->
           LET digits == IF v.i < 0 THEN Tail(content) ELSE content
           IN  /\ content # <<>> /\ (v.i < 0 => Head(content) = "-")
               /\ digits # <<>> /\ AllDigits(digits)
               /\ DigitsValue(digits) = (IF v.i < 0 THEN -v.i ELSE v.i)
               /\ (Len(digits) = 1 \/ digits[1] # "0")
      [] v.t \in {"str", "bytes"} -> content = v.s
      [] v.t = "unit" -> content = <<>>
      [] OTHER -> FALSE

\* the last call was a successful encode
Encoded == last.op = "encode" /\ last.err = "none"

\* the last call was a successful encode at a path that did not exist
EncodedFresh == Encoded /\ ~exists(last.pre, P)

(***************************************************************************)
(* C1  Round trip                                                          *)
(***************************************************************************)

\* C1, as stated: whenever encode(P, v) succeeded at a path P that did not
\* exist, decode(P, shape of v) succeeds and returns a value equal to v.
C1_RoundTrip_AsStated == EncodedFresh => DecodesTo(fs, last.ty, last.val)

\* C1, amended: whenever encode(P, v) succeeded at a path P that did not exist,
\* and none occurs in v only as the whole value, a struct field, a struct
\* variant field or the content of a newtype variant, decode(P, shape of v)
\* succeeds and returns a value equal to v.
C1_RoundTrip ==
    (EncodedFresh /\ NoneIsAField(last.val)) => DecodesTo(fs, last.ty, last.val)

\* a sequence of two structs was encoded at a fresh P and decodes to itself
C1_Witness ==
    /\ EncodedFresh /\ NoneIsAField(last.val)
    /\ last.val.t = "seq" /\ Len(last.val.c) = 2 /\ last.val.c[1].t = "struct"
    /\ DecodesTo(fs, last.ty, last.val)

(***************************************************************************)
(* C2  Idempotence                                                         *)
(***************************************************************************)

\* C2, as stated: whenever encode(P, v) succeeded, a second encode(P, v)
\* succeeds too and leaves the tree at and beneath P as the first left it, and
\* decode(P, shape of v) returns v after the second as it did after the first.
C2_Idempotent_AsStated ==
    Encoded =>
        \A rev \in BOOLEAN :
            LET r == to_fs(fs, P, last.val, rev)
            IN  /\ r.err = "none"
                /\ Subtree(r.fs, P) = Subtree(fs, P)
                /\ DecodesTo(fs, last.ty, last.val) =>
                       DecodesTo(r.fs, last.ty, last.val)

(***************************************************************************)
(* C3  Shrinkage                                                           *)
(***************************************************************************)

\* a sequence of scalar elements
ScalarSeq(v) == v.t = "seq" /\ \A i \in 1..Len(v.c) : v.c[i].t \in ScalarTags

\* C3: right after a sequence of n scalar elements has been encoded at P,
\* encoding a sequence of m < n scalar elements at P succeeds, leaves
\* P/0 .. P/(m-1) files holding the text of the new elements, and leaves the
\* numeric-named entries of P exactly 0 .. m-1.
C3_Shrinkage ==
    (Encoded /\ ScalarSeq(last.val)) =>
        \A in \in Inputs, rev \in BOOLEAN :
            (ScalarSeq(in[2]) /\ Len(in[2].c) < Len(last.val.c)) =>
                LET r == to_fs(fs, P, in[2], rev)
                IN  /\ r.err = "none"
                    /\ \A i \in 1..Len(in[2].c) :
                           /\ is_file(r.fs, P \o <<IndexName(i - 1)>>)
                           /\ HoldsTextOf(r.fs[P \o <<IndexName(i - 1)>>].content,
                                          in[2].c[i])
                    /\ Numbered(r.fs, P) = IndexNames(Len(in[2].c))

\* a shorter scalar sequence was encoded over a longer one: the entries from
\* its length on, files before, are gone
C3_Witness ==
    /\ Encoded /\ ScalarSeq(last.val) /\ Len(last.val.c) = 1
    /\ is_file(last.pre, P \o <<IndexName(0)>>)
    /\ is_file(last.pre, P \o <<IndexName(1)>>)
    /\ Numbered(fs, P) = IndexNames(1)

(***************************************************************************)
(* C4  Reconciliation of numeric entries                                   *)
(***************************************************************************)

\* a sequence or a tuple was handed to encode at a directory P
SeqEncodeAtDir ==
    last.op = "encode" /\ last.val.t \in {"seq", "tuple"} /\ is_dir(last.pre, P)

\* C4, as stated: a sequence or tuple encode at a directory P succeeds, and
\* every entry of P with a numeric name that existed before, file or
\* directory, is deleted: what is at a numeric name afterwards is an element
\* of the new sequence.
C4_Reconcile_AsStated ==
    SeqEncodeAtDir =>
        /\ last.err = "none"
        /\ Numbered(fs, P) \subseteq IndexNames(Len(last.val.c))

(***************************************************************************)
(* C5  Sequence encodes keep the non-numeric entries                       *)
(***************************************************************************)

\* C5: a sequence or tuple encode at a directory P leaves every entry of P whose
\* name does not parse as a non-negative integer, and all beneath it, in place
\* and unchanged.
C5_SeqKeepsOthers ==
    SeqEncodeAtDir =>
        \A q \in DOMAIN last.pre :
            (IsPrefix(P, q) /\ Len(q) > Len(P) /\ ~ParsesAsUsize(q[Len(P) + 1])) =>
                q \in DOMAIN fs /\ fs[q] = last.pre[q]

\* a sequence with an element was encoded at a directory that held an entry
\* with a non-numeric name
C5_Witness ==
    /\ SeqEncodeAtDir /\ last.err = "none" /\ Len(last.val.c) > 0
    /\ \E n \in Entries(last.pre, P) : ~ParsesAsUsize(n)

(***************************************************************************)
(* C6  Struct encodes change the declared fields only                      *)
(***************************************************************************)

\* name is one of names
Declares(names, name) == \E i \in 1..Len(names) : names[i] = name

\* path q lies in or beneath an entry of P that names does not declare
Undeclared(names, q) ==
    IsPrefix(P, q) /\ Len(q) > Len(P) /\ ~Declares(names, q[Len(P) + 1])

\* C6: a struct encode at a directory P changes only the entries of P named by
\* the declared fields: every other entry, with all beneath it, exists
\* afterwards exactly if it existed before, with the same content.
C6_StructKeepsOthers ==
    (last.op = "encode" /\ last.val.t = "struct" /\ is_dir(last.pre, P)) =>
        \A q \in DOMAIN last.pre \cup DOMAIN fs :
            Undeclared(last.val.k, q) =>
                /\ q \in DOMAIN last.pre /\ q \in DOMAIN fs
                /\ fs[q] = last.pre[q]

\* a struct was encoded at a directory that held an entry it does not declare
C6_Witness ==
    /\ Encoded /\ last.val.t = "struct" /\ is_dir(last.pre, P)
    /\ \E n \in Entries(last.pre, P) : ~Declares(last.val.k, n)
    /\ \E n \in Entries(fs, P) : Declares(last.val.k, n)

(***************************************************************************)
(* C7  Struct decodes read the declared fields only                        *)
(***************************************************************************)

\* the tree without the entries of P that names does not declare
Prune(f, names) == [q \in {r \in DOMAIN f : ~Undeclared(names, r)} |-> f[q]]

\* C7: the result of decoding a struct at a directory P is the result of
\* decoding it at the directory with every undeclared entry taken away, so two
\* directories that agree on the declared entries decode alike.
C7_StructReadsFields ==
    (last.op = "decode" /\ last.ty.t = "struct" /\ is_dir(last.pre, P)) =>
        \A rev \in BOOLEAN :
            last.out = from_fs(Prune(last.pre, last.ty.k), P, last.ty, rev)

\* a struct was decoded from a directory that holds an undeclared entry
C7_Witness ==
    /\ last.op = "decode" /\ last.ty.t = "struct" /\ is_dir(last.pre, P)
    /\ last.out.err = "none"
    /\ \E n \in Entries(last.pre, P) : ~Declares(last.ty.k, n)

(***************************************************************************)
(* C8  Overwrite                                                           *)
(***************************************************************************)

\* C8: encoding a scalar, bytes or unit value at P, no ancestor of P being a
\* regular file, succeeds whatever P held (nothing, a file, a directory with
\* content) and leaves P a regular file holding exactly the text or bytes of
\* the value, with nothing beneath P.
C8_Overwrite ==
    (last.op = "encode" /\ last.val.t \in ScalarTags /\ NoFileAbove(last.pre, P)) =>
        /\ last.err = "none"
        /\ is_file(fs, P)
        /\ HoldsTextOf(fs[P].content, last.val)
        /\ \A q \in DOMAIN fs : IsPrefix(P, q) => q = P

\* a scalar was encoded where a directory with content stood
C8_Witness ==
    /\ last.op = "encode" /\ last.val.t \in ScalarTags
    /\ is_dir(last.pre, P) /\ Entries(last.pre, P) # {}
    /\ is_file(fs, P)

(***************************************************************************)
(* C9  Absence                                                             *)
(***************************************************************************)

\* C9: encoding none at P succeeds and leaves nothing at or beneath P;
\* decoding an option at a P that does not exist yields none; decoding an
\* option at a P that exists yields some of what decoding the inner shape at P
\* yields, or fails as that decode fails.
C9_Absence ==
    /\ (last.op = "encode" /\ last.val.t = "none") =>
           /\ last.err = "none"
           /\ \A q \in DOMAIN fs : ~IsPrefix(P, q)
    /\ (last.op = "decode" /\ last.ty.t = "option" /\ ~exists(last.pre, P)) =>
           last.out = Ok(VNone)
    /\ (last.op = "decode" /\ last.ty.t = "option" /\ exists(last.pre, P)) =>
           \A rev \in BOOLEAN :
               LET r == from_fs(last.pre, P, last.ty.a[1], rev)
               IN  last.out = (IF r.err = "none" THEN Ok(VSome(r.v)) ELSE r)

\* none was encoded where a directory with content stood
C9_Witness ==
    /\ last.op = "encode" /\ last.val.t = "none"
    /\ is_dir(last.pre, P) /\ Entries(last.pre, P) # {}
    /\ ~exists(fs, P)

(***************************************************************************)
(* C10  A required scalar at a missing path                                *)
(***************************************************************************)

\* a bool, an integer, a string or bytes was decoded at a P that does not exist
ScalarDecodeAtMissing ==
    last.op = "decode" /\ last.ty \in ScalarTypes /\ ~exists(last.pre, P)

RECURSIVE Contiguous(_, _, _)
Contiguous(f, p, k) ==
    IF exists(f, p \o <<IndexName(k)>>) THEN Contiguous(f, p, k + 1) ELSE k

\* a tuple was decoded at a directory P
TupleDecodeAtDir ==
    last.op = "decode" /\ last.ty.t = "tuple" /\ is_dir(last.pre, P)

\* C11: decoding a tuple of N elements at a directory that holds the contiguous
\* indices 0..k-1 with k < N, k = 0 included, fails with
\* InvalidLen{expected: N, got: k} when the k elements decode.
C11_TupleTooShort ==
    TupleDecodeAtDir =>
        LET N == Len(last.ty.a)
            k == Contiguous(last.pre, P, 0)
        IN  (/\ k < N
             /\ \A i \in 1..k, rev \in BOOLEAN :
                    from_fs(last.pre, P \o <<IndexName(i - 1)>>, last.ty.a[i], rev).err
                        = "none")
            => last.out = InvalidLen(N, k)

\* a tuple of three was decoded at a directory that holds 0 and 1 only
C11_Witness ==
    /\ TupleDecodeAtDir /\ Len(last.ty.a) = 3
    /\ Contiguous(last.pre, P, 0) = 2
    /\ last.out.err = "InvalidLen" /\ last.out.expected = 3 /\ last.out.got = 2

\* C12, as stated: decoding a tuple of N elements at a directory that holds the
\* contiguous indices 0..k-1 with k > N, the first N of which decode, fails
\* with InvalidLen{expected: N, got: k}: it does not succeed with the first N.
C12_TupleTooLong_AsStated ==
    TupleDecodeAtDir =>
        LET N == Len(last.ty.a)
            k == Contiguous(last.pre, P, 0)
        IN  (/\ k > N
             /\ \A i \in 1..N, rev \in BOOLEAN :
                    from_fs(last.pre, P \o <<IndexName(i - 1)>>, last.ty.a[i], rev).err
                        = "none")
            => last.out = InvalidLen(N, k)

(***************************************************************************)
(* C13  The discriminant of an enum                                        *)
(***************************************************************************)

\* where the discriminant of an enum at P is read: P/variant when P is a
\* directory, P itself otherwise
DiscriminantPath(f) == IF is_dir(f, P) THEN P \o <<variant>> ELSE P

\* an enum was decoded and its discriminant is a file holding text
EnumDecode ==
    /\ last.op = "decode" /\ last.ty.t = "enum"
    /\ is_file(last.pre, DiscriminantPath(last.pre))
    /\ IsUtf8(last.pre[DiscriminantPath(last.pre)].content)

\* C13: decoding an enum whose discriminant text d, the whole content of P or
\* of P/variant, equals no name of the variant list fails with InvalidEnum(d),
\* the comparison being exact; when d is a name of the list the decode does
\* not fail so and what it returns is the variant of that name.
C13_Discriminant ==
    EnumDecode =>
        LET d == last.pre[DiscriminantPath(last.pre)].content
            L == last.ty.k
        IN  IF \A i \in 1..Len(L) : L[i] # d
            THEN last.out = InvalidEnum(d)
            ELSE /\ last.out.err # "InvalidEnum"
                 /\ last.out.err = "none" =>
                        /\ last.out.v.s = d
                        /\ \E i \in 1..Len(L) :
                               L[i] = d /\ last.out.v.t = last.ty.a[i].t

\* an enum was decoded at a file holding B, the list holding b: InvalidEnum("B")
C13_Witness ==
    /\ EnumDecode /\ is_file(last.pre, P)
    /\ last.pre[P].content = <<"B">>
    /\ last.out = InvalidEnum(<<"B">>)

(***************************************************************************)
(* C14  Map keys                                                           *)
(***************************************************************************)

\* a map was handed to encode at a P no ancestor of which is a regular file
MapEncode ==
    last.op = "encode" /\ last.val.t = "map" /\ NoFileAbove(last.pre, P)

\* C14: encoding a map with a key that is no string (a number, a boolean, a
\* struct) fails with KeyMustBeAString; encoding a map of string keys succeeds
\* and leaves the value of every key k encoded at P/k.
C14_MapKeys ==
    MapEncode =>
        IF \E i \in 1..Len(last.val.mk) : last.val.mk[i].t # "str"
        THEN last.err = "KeyMustBeAString"
        ELSE /\ last.err = "none"
             /\ \A i \in 1..Len(last.val.mk) :
                    LET path == P \o <<last.val.mk[i].s>>
                    IN  /\ is_file(fs, path)
                        /\ HoldsTextOf(fs[path].content, last.val.c[i])

\* a map with a number for a key was refused
C14_Witness ==
    /\ MapEncode /\ last.val.mk # <<>> /\ last.val.mk[1].t = "u8"
    /\ last.err = "KeyMustBeAString"

(***************************************************************************)
(* C15  Newtype variants                                                   *)
(***************************************************************************)

\* a newtype variant of a scalar was handed to encode at a P no ancestor of
\* which is a regular file
NewtypeVariantEncode ==
    /\ last.op = "encode" /\ last.val.t = "newtype_variant"
    /\ last.val.c[1].t \in ScalarTags
    /\ NoFileAbove(last.pre, P)

\* C15: encoding a newtype variant V(x) at P, whatever P held, succeeds and
\* leaves P a directory in which P/variant is a file holding exactly the name
\* of the variant and P/value is the encoding of x; every other entry that
\* directory P held keeps its content, with all beneath it.
C15_NewtypeVariant ==
    NewtypeVariantEncode =>
        /\ last.err = "none"
        /\ is_dir(fs, P)
        /\ is_file(fs, P \o <<variant>>)
        /\ fs[P \o <<variant>>].content = last.val.s
        /\ is_file(fs, P \o <<value>>)
        /\ HoldsTextOf(fs[P \o <<value>>].content, last.val.c[1])
        /\ \A q \in DOMAIN fs : IsPrefix(P \o <<value>>, q) => q = P \o <<value>>
        /\ is_dir(last.pre, P) =>
               \A q \in DOMAIN last.pre :
                   Undeclared(<<variant, value>>, q) =>
                       q \in DOMAIN fs /\ fs[q] = last.pre[q]

\* a newtype variant was encoded at a directory that held another entry
C15_Witness ==
    /\ NewtypeVariantEncode /\ last.err = "none" /\ is_dir(last.pre, P)
    /\ \E n \in Entries(last.pre, P) : n \notin {variant, value}
    /\ is_file(fs, P \o <<value>>)

(***************************************************************************)
(* C16  Map encodes keep the other keys                                    *)
(***************************************************************************)

\* the keys of a map of string keys
KeyNames(v) == [i \in 1..Len(v.mk) |-> v.mk[i].s]

\* a map of string keys was encoded at a directory P
MapEncodeAtDir ==
    /\ Encoded /\ last.val.t = "map" /\ is_dir(last.pre, P)
    /\ \A i \in 1..Len(last.val.mk) : last.val.mk[i].t = "str"

\* C16: encoding a map at a directory P leaves P/k holding the value of every
\* key k of the map and leaves every other entry of P, a key of an earlier
\* map included, in place with its content.
C16_MapKeepsOthers ==
    MapEncodeAtDir =>
        /\ \A i \in 1..Len(last.val.mk) :
               /\ is_file(fs, P \o <<last.val.mk[i].s>>)
               /\ HoldsTextOf(fs[P \o <<last.val.mk[i].s>>].content, last.val.c[i])
        /\ \A q \in DOMAIN last.pre \cup DOMAIN fs :
               Undeclared(KeyNames(last.val), q) =>
                   /\ q \in DOMAIN last.pre /\ q \in DOMAIN fs
                   /\ fs[q] = last.pre[q]

\* the map { test } was encoded where the keys test and passed stood as files:
\* passed is still there
C16_Witness ==
    /\ MapEncodeAtDir /\ KeyNames(last.val) = <<test>>
    /\ is_file(last.pre, P \o <<test>>) /\ is_file(last.pre, P \o <<passed>>)
    /\ is_file(fs, P \o <<passed>>)

(***************************************************************************)
(* C17  Encodes write beneath P only                                       *)
(***************************************************************************)

\* C17, as stated: every encode at P, a map written entry by entry or key by
\* key included, changes nothing outside P and what is beneath it, but for the
\* missing ancestor directories of P that it creates.
C17_WritesBeneathP_AsStated ==
    last.op \in {"encode", "encode_by_key"} =>
        \A q \in DOMAIN last.pre \cup DOMAIN fs :
            ~IsPrefix(P, q) =>
                /\ q \in DOMAIN fs
                /\ q \in DOMAIN last.pre => fs[q] = last.pre[q]
                /\ q \notin DOMAIN last.pre => IsPrefix(q, P) /\ fs[q] = Dir

(***************************************************************************)
(* C18  Whitespace around a bool or an integer                             *)
(***************************************************************************)

\* what may stand before and after the text of a scalar
Pads == {<<>>, <<" ">>, <<"\n">>, <<"\t">>, <<" ", "\n">>}

\* the tree with l put before and r after the content of file P
Padded(f, l, r) == Put(f, P, File(l \o f[P].content \o r))

\* c without the whitespace around it: the one stretch of c that neither
\* begins nor ends with whitespace and has only whitespace before and after
Core(c) ==
    CHOOSE s \in {SubSeq(c, i, j) : i \in 1..(Len(c) + 1), j \in 0..Len(c)} :
        \E i \in 1..(Len(c) + 1), j \in 0..Len(c) :
            /\ s = SubSeq(c, i, j)
            /\ \A n \in 1..(i - 1) : c[n] \in Whitespace
            /\ \A n \in (j + 1)..Len(c) : c[n] \in Whitespace
            /\ s # <<>> => s[1] \notin Whitespace /\ s[Len(s)] \notin Whitespace

\* a decode at a file P that holds text
DecodeAtTextFile ==
    /\ last.op = "decode" /\ is_file(last.pre, P) /\ IsUtf8(last.pre[P].content)

\* C18: decoding a bool or a u8 at file P gives what the content without the
\* whitespace around it parses to, true, false or the number, and fails with
\* the parse error of the type when that does not parse; whitespace added
\* before and after the content changes nothing of the result. Decoding a
\* string returns the whole content, added whitespace included.
C18_Trim ==
    DecodeAtTextFile =>
        LET c == last.pre[P].content
        IN  /\ last.ty = TBool =>
                   last.out = (CASE Core(c) = <<"t", "r", "u", "e">> -> Ok(VBool(TRUE))
                                 [] Core(c) = <<"f", "a", "l", "s", "e">> -> Ok(VBool(FALSE))
                                 [] OTHER -> Err("ParseBoolError"))
            /\ last.ty = U8 =>
                   IF AllDigits(Core(c)) /\ Len(Core(c)) <= 3
                   THEN last.out = (IF DigitsValue(Core(c)) <= 255
                                    THEN Ok(VInt("u8", DigitsValue(Core(c))))
                                    ELSE Err("ParseIntError"))
                   ELSE last.out.err \in {"none", "ParseIntError"}
            /\ last.ty \in {TBool, U8} =>
                   \A l \in Pads, r \in Pads, rev \in BOOLEAN :
                       from_fs(Padded(last.pre, l, r), P, last.ty, rev) = last.out
            /\ last.ty = TStr =>
                   \A l \in Pads, r \in Pads, rev \in BOOLEAN :
                       from_fs(Padded(last.pre, l, r), P, TStr, rev)
                           = Ok(VStr(l \o c \o r))

\* a u8 was decoded at a file that holds 100 between spaces, newline last
C18_Witness ==
    /\ DecodeAtTextFile /\ last.ty = U8
    /\ last.pre[P].content = <<" ", "1", "0", "0", " ", "\n">>
    /\ last.out = Ok(VInt("u8", 100))

(***************************************************************************)
(* C19  Unit                                                               *)
(***************************************************************************)

\* C19: decoding unit at P succeeds exactly when P is a regular file, whatever
\* the file holds, and fails with FileNotFound when P does not exist or is a
\* directory.
C19_Unit ==
    (last.op = "decode" /\ last.ty = TUnit) =>
        IF is_file(last.pre, P)
        THEN last.out = Ok(VUnit)
        ELSE last.out = Err("FileNotFound")

\* unit was decoded at a directory and the decode failed with FileNotFound
C19_Witness ==
    /\ last.op = "decode" /\ last.ty = TUnit /\ is_dir(last.pre, P)
    /\ last.out.err = "FileNotFound"

(***************************************************************************)
(* C20  Char                                                               *)
(***************************************************************************)

\* what may follow the first byte of a file
Tails == {<<>>, <<"x">>, <<"x", "A", "9">>, <<InvalidByte, "\n">>}

\* a char was decoded at a file P
CharDecodeAtFile == last.op = "decode" /\ last.ty = TChar /\ is_file(last.pre, P)

\* C20: decoding a char at file P fails with Empty when the file has no byte;
\* otherwise it returns the character whose code is the first byte (the byte
\* itself for ASCII, U+00FF for 0xFF, U+00C3 for 0xC3), and the same whatever
\* bytes follow.
C20_Char ==
    CharDecodeAtFile =>
        LET c == last.pre[P].content
        IN  IF c = <<>> THEN last.out = Err("Empty")
            ELSE /\ last.out.err = "none" /\ last.out.v.t = "char"
                 /\ last.out.v.s = (CASE c[1] = InvalidByte -> <<"xC3", "xBF">>
                                       [] c[1] = "xC3" -> <<"xC3", "x83">>
                                       [] OTHER -> <<c[1]>>)
                 /\ \A tail \in Tails, rev \in BOOLEAN :
                        from_fs(Put(last.pre, P, File(<<c[1]>> \o tail)), P, TChar, rev)
                            = last.out

\* a char was decoded at a file of two bytes and is the first of them
C20_Witness ==
    /\ CharDecodeAtFile /\ last.pre[P].content = <<"h", "i">>
    /\ last.out.err = "none" /\ last.out.v.s = <<"h">>


(***************************************************************************)
(* C21: decoding is a function of the tree                                 *)
(***************************************************************************)

C22_DisjointEncodes ==
    (procs # NoProcs /\ finished(procs.a) /\ finished(procs.b)) =>
        LET a1 == to_fs(procs.pre, Pa, procs.a.val, FALSE)
            ab == to_fs(a1.fs, Pb, procs.b.val, FALSE)
            b1 == to_fs(procs.pre, Pb, procs.b.val, FALSE)
            ba == to_fs(b1.fs, Pa, procs.a.val, FALSE)
        IN  /\ procs.a.err = "none" /\ procs.b.err = "none"
            /\ a1.err = "none" /\ ab.err = "none" /\ fs = ab.fs
            /\ b1.err = "none" /\ ba.err = "none" /\ fs = ba.fs

\* both calls have returned; P did not exist when they began, each of them
\* ran while the other was under way, and both created directories
C22_Witness ==
    /\ procs # NoProcs
    /\ finished(procs.a) /\ finished(procs.b)
    /\ procs.overlap
    /\ ~exists(procs.pre, P)
    /\ is_dir(fs, Pa) /\ is_dir(fs, Pb)

(***************************************************************************)
(* C23: the first error of a child is the result of the call               *)
(***************************************************************************)

\* a map with a key that is no string: its encoding fails
HasInvalidKey(v) == v.t = "map" /\ \E i \in 1..Len(v.mk) : v.mk[i].t # "str"

\* the encoding of the j-th child of v fails: a pair whose key is no string,
\* or a child that is a map with such a key
ChildFails(v, j) == (v.t = "map" /\ v.mk[j].t # "str") \/ HasInvalidKey(v.c[j])

\* the name of the j-th child of v beneath the path of v
ChildName(v, j) ==
    CASE v.t \in {"seq", "tuple"} -> IndexName(j - 1)
      [] v.t = "struct" -> v.k[j]
      [] v.t = "map" -> v.mk[j].s

\* the children a decode of shape T at p asks for, in the order it asks:
\* their names and their shapes
ChildrenAsked(f, p, T, rev) ==
    LET k == Contiguous(f, p, 0)
        n == IF T.t = "tuple" /\ Len(T.a) < k THEN Len(T.a) ELSE k
    IN  CASE T.t \in {"seq", "tuple"} ->
               [i \in 1..n |-> [name |-> IndexName(i - 1),
                                ty |-> IF T.t = "seq" THEN T.a[1] ELSE T.a[i]]]
          [] T.t = "struct" -> [i \in 1..Len(T.k) |-> [name |-> T.k[i], ty |-> T.a[i]]]
          [] T.t = "map" ->
               LET names == IF is_dir(f, p) THEN read_dir(f, p, rev) ELSE <<>>
               IN  [i \in 1..Len(names) |-> [name |-> names[i], ty |-> T.a[1]]]

\* C23: when the encoding of a child (sequence element, struct field, map
\* pair) fails, the encode returns that error, the children before it have
\* been written and the paths of the children after it are as they were when
\* the container had been prepared; when the decoding of a child fails, the
\* decode returns the error of the first child that fails, in the order the
\* children are asked for, and a failed decode carries no value
C23_FailFast ==
    /\ (/\ last.op = "encode"
        /\ last.val.t \in {"seq", "tuple", "struct", "map"}
        /\ \E j \in 1..Len(last.val.c) : ChildFails(last.val, j))
       => LET v == last.val
              new == IF v.t \in {"seq", "tuple"}
                     THEN FilesystemSequenceSerializer_new(last.pre, P, FALSE)
                     ELSE FilesystemMapSerializer_new(last.pre, P)
              i == CHOOSE j \in 1..Len(v.c) :
                       ChildFails(v, j) /\ \A h \in 1..(j - 1) : ~ChildFails(v, h)
          IN  new.err = "none" =>
                  /\ last.err = "KeyMustBeAString"
                  /\ \A j \in 1..(i - 1) :
                         v.c[j].t # "none" => exists(fs, P \o <<ChildName(v, j)>>)
                  /\ \A j \in (i + 1)..Len(v.c) :
                         (v.t = "map" => v.mk[j].t = "str") =>
                             Subtree(fs, P \o <<ChildName(v, j)>>)
                                 = Subtree(new.fs, P \o <<ChildName(v, j)>>)
    /\ (/\ last.op = "decode"
        /\ last.ty.t \in {"seq", "tuple", "struct", "map"})
       => /\ last.out.err # "none" => last.out.v = VNone
          /\ \E rev \in BOOLEAN :
                 LET asked == ChildrenAsked(last.pre, P, last.ty, rev)
                     child(i) == from_fs(last.pre, P \o <<asked[i].name>>,
                                         asked[i].ty, rev)
                 IN  \A i \in 1..Len(asked) :
                         (/\ child(i).err # "none"
                          /\ \A j \in 1..(i - 1) : child(j).err = "none")
                         => last.out = child(i)

\* a tuple of three was decoded at a directory whose only element, P/0, holds
\* a text that is no number: the result is the parse error, not InvalidLen
C23_Witness ==
    /\ last.op = "decode"
    /\ last.ty.t = "tuple" /\ Len(last.ty.a) = 3
    /\ is_file(last.pre, P \o <<IndexName(0)>>)
    /\ ~exists(last.pre, P \o <<IndexName(1)>>)
    /\ last.out = Err("ParseIntError")

(***************************************************************************)
(* C24: a decoded map has one key per entry of the directory               *)
(***************************************************************************)

\* C24: a map decoded at directory P succeeds exactly if every entry of P
\* decodes as a value of the map; the result then has one pair per entry,
\* its keys are the names of the entries of P and the value under a key is
\* the decoding of P/key
C24_MapDecode ==
    (last.op = "decode" /\ last.ty.t = "map" /\ is_dir(last.pre, P)) =>
        LET E == Entries(last.pre, P)
            m == last.out.v
            T == last.ty.a[1]
        IN  /\ (last.out.err = "none") <=>
                   \A e \in E : \E rev \in BOOLEAN :
                       from_fs(last.pre, P \o <<e>>, T, rev).err = "none"
            /\ last.out.err = "none" =>
                   /\ m.t = "map"
                   /\ Len(m.mk) = Cardinality(E)
                   /\ {m.mk[i].s : i \in 1..Len(m.mk)} = E
                   /\ \A i \in 1..Len(m.mk) :
                          /\ m.mk[i] = VStr(m.mk[i].s)
                          /\ \E rev \in BOOLEAN :
                                 from_fs(last.pre, P \o <<m.mk[i].s>>, T, rev)
                                     = Ok(m.c[i])

\* a map was decoded at a directory whose entry `test` the caller wrote with
\* write_to_file, padded, and the map has the key test with the value 100
C24_Witness ==
    /\ last.op = "decode" /\ last.ty.t = "map"
    /\ is_file(last.pre, P \o <<test>>)
    /\ last.pre[P \o <<test>>].content = <<" ", "1", "0", "0", " ", "\n">>
    /\ last.out = Ok(VMap(<<VStr(test)>>, <<VInt("u8", 100)>>))

(***************************************************************************)
(* C25: one shape per path                                                 *)
(***************************************************************************)

\* the value that some(..some(x)) is encoded as
RECURSIVE Unwrap(_)
Unwrap(v) == IF v.t = "some" THEN Unwrap(v.c[1]) ELSE v

\* C25: after a successful encode(P, v), whatever P held before, P is a
\* regular file if v is a scalar, bytes, unit or a unit variant, a directory
\* if v is a sequence, tuple, map, struct or a newtype, tuple or struct
\* variant, and absent if v is none (some(x) being encoded as x)
C25_OneShape ==
    (last.op \in {"encode", "encode_by_key"} /\ last.err = "none") =>
        LET v == Unwrap(last.val)
        IN  /\ v.t \in {"bool", "u8", "i8", "str", "bytes", "char", "unit",
                        "unit_variant"} => is_file(fs, P)
            /\ v.t \in {"seq", "tuple", "map", "struct", "newtype_variant",
                        "tuple_variant", "struct_variant"} => is_dir(fs, P)
            /\ v.t = "none" => ~exists(fs, P)

\* a struct has been encoded where a regular file was, and P is a directory
C25_Witness ==
    /\ Encoded /\ last.val.t = "struct"
    /\ is_file(last.pre, P)
    /\ is_dir(fs, P)

(***************************************************************************)
(* C26: tuple and struct variants                                          *)
(***************************************************************************)

\* the layout of a tuple or struct variant v at P: the marker file with the
\* variant name next to the payload children, the numbered entries of a tuple
\* variant being its elements and no more
VariantLayout(f, v) ==
    /\ is_dir(f, P)
    /\ is_file(f, P \o <<variant>>)
    /\ f[P \o <<variant>>].content = v.s
    /\ v.t = "tuple_variant" => Numbered(f, P) = IndexNames(Len(v.c))
    /\ v.t = "struct_variant" =>
           \A i \in 1..Len(v.k) : v.c[i].t # "none" => exists(f, P \o <<v.k[i]>>)

\* C26, as stated: after a successful encode of a tuple or struct variant at
\* P, P is a directory holding the marker file P/variant with the variant
\* name next to the payload children, and decoding P as the enum returns the
\* encoded variant.
C26_Variant_AsStated ==
    (Encoded /\ last.val.t \in {"tuple_variant", "struct_variant"}) =>
        /\ VariantLayout(fs, last.val)
        /\ DecodesTo(fs, last.ty, last.val)

\* C26, amended: the same, for a struct variant that declares no field named
\* `variant` and a tuple variant none of whose elements is none.
C26_Variant ==
    (/\ Encoded
     /\ last.val.t \in {"tuple_variant", "struct_variant"}
     /\ NoneIsAField(last.val)) =>
        /\ VariantLayout(fs, last.val)
        /\ DecodesTo(fs, last.ty, last.val)

\* a tuple variant of two elements was encoded at a directory that held other
\* entries, and decodes to itself with the marker file beside its elements
C26_Witness ==
    /\ Encoded /\ last.val.t = "tuple_variant" /\ Len(last.val.c) = 2
    /\ is_dir(last.pre, P) /\ Entries(last.pre, P) # {}
    /\ Cardinality(Entries(fs, P)) > 2
    /\ DecodesTo(fs, last.ty, last.val)

(***************************************************************************)
(* C27: the last write wins                                                *)
(***************************************************************************)

\* v is a map or holds one
RECURSIVE ContainsMap(_)
ContainsMap(v) == v.t = "map" \/ \E i \in 1..Len(v.c) : ContainsMap(v.c[i])

\* C27: after a successful encode(P, v) of a value that is no map, holds no
\* map and round-trips on a fresh path, whatever was encoded at P before,
\* decode(P, shape of v) returns v
C27_LastWriteWins ==
    (Encoded /\ NoneIsAField(last.val) /\ ~ContainsMap(last.val)) =>
        DecodesTo(fs, last.ty, last.val)

\* a sequence was encoded at a directory that held the marker and the elements
\* of a variant, and decodes to itself
C27_Witness ==
    /\ Encoded /\ NoneIsAField(last.val)
    /\ last.val.t = "seq" /\ Len(last.val.c) = 1
    /\ is_file(last.pre, P \o <<variant>>)
    /\ is_file(last.pre, P \o <<IndexName(1)>>)
    /\ DecodesTo(fs, last.ty, last.val)

(***************************************************************************)
(* C28: a none element of a sequence                                       *)
(***************************************************************************)

\* C28: after a successful encode at P of a sequence whose first none
\* element has the index i, P/i is absent, every later element that is not
\* none has been written at its own index, and decoding P as the sequence
\* succeeds with the i elements before the gap
C28_SeqGap ==
    (Encoded /\ last.val.t = "seq"
        /\ \E n \in 1..Len(last.val.c) : last.val.c[n].t = "none") =>
        LET c == last.val.c
            n == CHOOSE m \in 1..Len(c) :
                     c[m].t = "none" /\ \A h \in 1..(m - 1) : c[h].t # "none"
        IN  /\ ~exists(fs, P \o <<IndexName(n - 1)>>)
            /\ \A m \in (n + 1)..Len(c) :
                   c[m].t # "none" =>
                       \A rev \in BOOLEAN :
                           from_fs(fs, P \o <<IndexName(m - 1)>>, last.ty.a[1], rev)
                               = Ok(c[m])
            /\ \A rev \in BOOLEAN :
                   from_fs(fs, P, last.ty, rev) = Ok(VSeq(SubSeq(c, 1, n - 1)))

\* [None, Some(100)] was encoded: P/0 is absent, P/1 holds 100 and the
\* sequence decodes as empty
C28_Witness ==
    /\ Encoded
    /\ last.val = VSeq(<<VNone, VSome(VInt("u8", 100))>>)
    /\ ~exists(fs, P \o <<IndexName(0)>>)
    /\ is_file(fs, P \o <<IndexName(1)>>)
    /\ from_fs(fs, P, last.ty, FALSE) = Ok(VSeq(<<>>))

(***************************************************************************)
(* C29: a map encode that fails on a key                                   *)
(***************************************************************************)

\* C29: after a map encode at P that failed with KeyMustBeAString, P is a
\* directory (so the tree has changed if P was a file or missing), and every
\* pair before the first key that is no string is on disk at P/key
C29_FailedMap ==
    (last.op = "encode" /\ last.val.t = "map" /\ last.err = "KeyMustBeAString") =>
        LET v == last.val
            n == CHOOSE m \in 1..Len(v.mk) :
                     v.mk[m].t # "str" /\ \A h \in 1..(m - 1) : v.mk[h].t = "str"
        IN  /\ is_dir(fs, P)
            /\ ~is_dir(last.pre, P) => fs # last.pre
            /\ \A m \in 1..(n - 1) :
                   /\ is_file(fs, P \o <<v.mk[m].s>>)
                   /\ HoldsTextOf(fs[P \o <<v.mk[m].s>>].content, v.c[m])

\* a map whose second key is a number was encoded where a file was: P is now
\* a directory that holds the first pair and not the third
C29_Witness ==
    /\ last.op = "encode" /\ last.val = MixedKeyMap
    /\ last.err = "KeyMustBeAString"
    /\ is_file(last.pre, P)
    /\ is_dir(fs, P)
    /\ Entries(fs, P) = {test}

(***************************************************************************)
(* C30: a struct variant with a field named `variant`                      *)
(***************************************************************************)

\* C30: after a successful encode at P of a struct variant that declares a
\* field named `variant`, P/variant holds the encoding of that field, and an
\* enum decode at P takes that text for the discriminant: it fails with
\* InvalidEnum of it when it names no variant, and otherwise returns nothing
\* but the variant of that name
C30_MarkerOverwritten ==
    (Encoded /\ last.val.t = "struct_variant"
        /\ \E i \in 1..Len(last.val.k) : last.val.k[i] = variant) =>
        LET v == last.val
            i == CHOOSE h \in 1..Len(v.k) : v.k[h] = variant
            c == fs[P \o <<variant>>].content
        IN  /\ is_file(fs, P \o <<variant>>)
            /\ HoldsTextOf(c, v.c[i])
            /\ \A rev \in BOOLEAN :
                   LET r == from_fs(fs, P, last.ty, rev)
                   IN  IF VariantIndex(last.ty.k, c) = 0
                       THEN r = InvalidEnum(c)
                       ELSE r.err = "none" => r.v.s = c

\* V3 { variant: 100 } was encoded: P/variant holds `100`, not `V3`, and the
\* enum decode fails with InvalidEnum(`100`)
C30_Witness ==
    /\ Encoded
    /\ last.val = VStructVariant(<<"V", "3">>, <<variant>>, <<VInt("u8", 100)>>)
    /\ fs[P \o <<variant>>].content = <<"1", "0", "0">>
    /\ from_fs(fs, P, last.ty, FALSE) = InvalidEnum(<<"1", "0", "0">>)

====
